---- MODULE Spec2Model ----
(***************************************************************************)
(* The catalog transaction manager and the basket of cistech-backend:      *)
(* ProductService.create_complete / update_complete / delete /             *)
(* delete_for_admin, BasketService.add_item and the favorites service,     *)
(* over a PostgreSQL database read at READ COMMITTED.                      *)
(*                                                                         *)
(* db is the committed database: one set of rows per table.  A request of  *)
(* the product service runs in steps (one per block of its handler); what  *)
(* it has added, flushed or bulk-deleted so far is its transaction tx, a   *)
(* write set that only the request itself sees until commit.  Readers and  *)
(* the other requests see db alone.                                        *)
(***************************************************************************)
EXTENDS Integers, Sequences, FiniteSets, TLC

VARIABLES
    db,     \* the committed rows of every table
    seq,    \* number of requests served so far (drives the id sequences)
    req,    \* the product-service request in flight, or the last one served
    tx,     \* the open transaction of req: rows inserted and rows deleted
    breq,   \* the last basket / favorite request served and its outcome
    calls   \* the basket requests in flight, one per client connection

vars == <<db, seq, req, tx, breq, calls>>

----------------------------------------------------------------------------
(* Bounds of the model. *)

\* requests served in a run of the catalog specification
MaxCatalogRequests == 2
\* requests served in a run of the basket / reference specification
MaxRefRequests == 3
\* ids handed out per request and table: request r owns r*IdStride+1 ...
IdStride == 10

Vendors == {1, 2}
Users == {1, 2}

----------------------------------------------------------------------------
(* Tables. *)

Tables ==
    {"products", "product_filters", "product_images", "product_characteristics",
     "product_variations", "variation_images", "variation_characteristics",
     "characteristic_types", "filter_options", "baskets", "basket_items",
     "favorites", "vendor_profiles", "categories", "filter_types",
     "orders", "order_items", "denas_products", "users"}

\* the tables that make up product aggregates
CatalogTables ==
    {"products", "product_filters", "product_images", "product_characteristics",
     "product_variations", "variation_images", "variation_characteristics",
     "characteristic_types"}

NoRows == [t \in Tables |-> {}]

\* the rows scripts/populate_filters.py has written before the first request,
\* from a filter.json of one category with one filter type of two options
CategoryRows == {[id |-> 1, name |-> "Tools"]}
FilterTypeRows == {[id |-> 1, category_id |-> 1, name |-> "Power"]}
FilterOptionRows ==
    {[id |-> 1, filter_type_id |-> 1, value |-> "220V"],
     [id |-> 2, filter_type_id |-> 1, value |-> "battery"]}

\* an optional payload field: unset (None) or set to a value
None == <<>>
Some(x) == <<x>>
IsSet(o) == o # <<>>
Val(o) == o[1]

Range(s) == {s[i] : i \in 1..Len(s)}

----------------------------------------------------------------------------
(* The session: the transaction's own view of the tables. *)

NoTx == [ins |-> NoRows, del |-> NoRows]

\* what a statement of the transaction s reads from table t: the committed
\* rows, less the ones s deleted, plus the ones s inserted
Tbl(s, t) == (db[t] \ s.del[t]) \cup s.ins[t]

\* db.add(row) [+ flush]
Add(s, t, rows) == [s EXCEPT !.ins[t] = @ \cup rows]

\* a row deleted by the transaction
Del(s, t, rows) ==
    [s EXCEPT !.ins[t] = @ \ rows, !.del[t] = @ \cup (rows \cap db[t])]

\* the next id of table t for request rid
NewId(s, rid, t) == rid * IdStride + Cardinality(s.ins[t]) + 1

\* the tables after s commits
Committed(s) == [t \in Tables |-> Tbl(s, t)]

\* str(n) for n >= 0: the decimal digits
RECURSIVE str(_)
str(n) == IF n < 10 THEN <<n>> ELSE Append(str(n \div 10), n % 10)

\* truthiness of an Optional[List] payload field: None and [] are falsy
Truthy(o) == IsSet(o) /\ Val(o) # <<>>

----------------------------------------------------------------------------
(* ProductService helpers (product_service.py 108-188). *)

\* get_or_create_characteristic_type without the query for an existing type
create_characteristic_type(s, rid, type_name) ==
    Add(s, "characteristic_types",
        {[id |-> NewId(s, rid, "characteristic_types"), name |-> type_name]})

\* _get_or_create_characteristic_type, lines 108-119
get_or_create_characteristic_type(s, rid, type_name) ==
    IF \E ct \in Tbl(s, "characteristic_types") : ct.name = type_name
    THEN s
    ELSE Add(s, "characteristic_types",
             {[id |-> NewId(s, rid, "characteristic_types"), name |-> type_name]})

\* char_type.id of the row the query returns (.first())
characteristic_type_id(s, type_name) ==
    (CHOOSE ct \in Tbl(s, "characteristic_types") : ct.name = type_name).id

RECURSIVE create_variation_characteristics(_, _, _, _)
create_variation_characteristics(s, rid, variation_id, characteristics) ==
    IF characteristics = <<>> THEN s
    ELSE LET char_input == Head(characteristics)
             s1 == get_or_create_characteristic_type(s, rid, char_input.type_name)
             row == [id |-> NewId(s1, rid, "variation_characteristics"),
                     variation_id |-> variation_id,
                     characteristic_type_id |->
                         characteristic_type_id(s1, char_input.type_name),
                     value |-> char_input.value]
         IN create_variation_characteristics(
                Add(s1, "variation_characteristics", {row}),
                rid, variation_id, Tail(characteristics))

\* order = img_data.order or idx, idx counted from 0
RECURSIVE create_variation_images(_, _, _, _, _)
create_variation_images(s, rid, variation_id, images, idx) ==
    IF images = <<>> THEN s
    ELSE LET img_data == Head(images)
             row == [id |-> NewId(s, rid, "variation_images"),
                     variation_id |-> variation_id,
                     url |-> img_data.url,
                     order |-> IF img_data.order # 0 THEN img_data.order ELSE idx]
         IN create_variation_images(Add(s, "variation_images", {row}),
                                    rid, variation_id, Tail(images), idx + 1)

RECURSIVE create_product_images(_, _, _, _, _)
create_product_images(s, rid, product_id, images, idx) ==
    IF images = <<>> THEN s
    ELSE LET img_data == Head(images)
             row == [id |-> NewId(s, rid, "product_images"),
                     product_id |-> product_id,
                     url |-> img_data.url,
                     order |-> IF img_data.order # 0 THEN img_data.order ELSE idx]
         IN create_product_images(Add(s, "product_images", {row}),
                                  rid, product_id, Tail(images), idx + 1)

RECURSIVE create_variations(_, _, _, _)
create_variations(s, rid, product_id, variations) ==
    IF variations = <<>> THEN s
    ELSE LET var_data == Head(variations)
             variation == [id |-> NewId(s, rid, "product_variations"),
                           product_id |-> product_id,
                           name |-> var_data.name,
                           price |-> var_data.price,
                           quantity |-> var_data.quantity]
             s1 == Add(s, "product_variations", {variation})
             s2 == IF var_data.characteristics # <<>>
                   THEN create_variation_characteristics(
                            s1, rid, variation.id, var_data.characteristics)
                   ELSE s1
             s3 == IF var_data.images # <<>>
                   THEN create_variation_images(s2, rid, variation.id,
                                                var_data.images, 0)
                   ELSE s2
         IN create_variations(s3, rid, product_id, Tail(variations))

RECURSIVE create_product_characteristics(_, _, _, _)
create_product_characteristics(s, rid, product_id, characteristics) ==
    IF characteristics = <<>> THEN s
    ELSE LET char_input == Head(characteristics)
             s1 == get_or_create_characteristic_type(s, rid, char_input.type_name)
             row == [id |-> NewId(s1, rid, "product_characteristics"),
                     product_id |-> product_id,
                     characteristic_type_id |->
                         characteristic_type_id(s1, char_input.type_name),
                     value |-> char_input.value]
         IN create_product_characteristics(
                Add(s1, "product_characteristics", {row}),
                rid, product_id, Tail(characteristics))

\* the FilterOption rows whose id is in the list:
\* query(FilterOption).filter(FilterOption.id.in_(ids)).all()
filter_options_in(s, ids) ==
    {fo \in Tbl(s, "filter_options") : fo.id \in Range(ids)}

\* product.filters = filter_options: the association rows of the product
\* become one row per option of the list
set_product_filters(s, product_id, options) ==
    LET old == {pf \in Tbl(s, "product_filters") : pf.product_id = product_id}
        new == {[product_id |-> product_id, filter_option_id |-> fo.id] :
                    fo \in options}
    IN Add(Del(s, "product_filters", old \ new), "product_filters", new \ old)

----------------------------------------------------------------------------
(* Requests. *)

Catalog(d) == [t \in CatalogTables |-> d[t]]

NoPayload ==
    [name |-> None, category_id |-> None,
     price |-> None, quantity |-> None, status |-> None,
     filter_option_ids |-> None, images |-> None, characteristics |-> None,
     variations |-> None]

NoRequest ==
    [op |-> "none", pc |-> "idle", rid |-> 0, product_id |-> 0,
     vendor_profile_id |-> 0, payload |-> NoPayload, code |-> 0,
     detail |-> "", before |-> Catalog(NoRows)]

\* the connections basket requests arrive on at the same time
Connections == {1, 2}

\* a connection with no request in flight; a request in flight keeps what its
\* session has read: the product, the basket and the line it found
NoCall ==
    [op |-> "none", pc |-> "idle", rid |-> 0, user_id |-> 0, product_id |-> 0,
     quantity |-> 0, product |-> {}, basket |-> {}, existing_item |-> {},
     code |-> 0, detail |-> ""]

NoBasketRequest ==
    [op |-> "none", rid |-> 0, user_id |-> 0, product_id |-> 0, item_id |-> 0,
     quantity |-> 0, code |-> 0, detail |-> "", available |-> 0]

\* no product-service request is in flight
Idle == req.pc \in {"idle", "done"}

\* raise HTTPException(code, detail) outside a try block, or an exception
\* of the database driver (code 500): it leaves the handler
Raise(code, detail) ==
    [req EXCEPT !.pc = "raise", !.code = code, !.detail = detail]

\* an exception inside the try block of create_complete or delete
Except(detail) == [req EXCEPT !.pc = "except", !.detail = detail]

----------------------------------------------------------------------------
(* ProductService.create_complete (product_service.py 190-232). *)

\* Product(**product_data); db.add(product); db.flush()
CreateBegin(payload, vendor_profile_id) ==
    /\ Idle
    /\ LET rid == seq + 1
           product == [id |-> rid,
                       vendor_profile_id |-> vendor_profile_id,
                       name |-> Val(payload.name),
                       category_id |-> Val(payload.category_id),
                       price |-> Val(payload.price),
                       quantity |-> Val(payload.quantity),
                       status |-> Val(payload.status)]
       IN /\ seq' = rid
          /\ req' = [op |-> "create", pc |-> "filters", rid |-> rid,
                     product_id |-> rid, vendor_profile_id |-> vendor_profile_id,
                     payload |-> payload, code |-> 0, detail |-> "",
                     before |-> Catalog(db)]
          /\ tx' = Add(NoTx, "products", {product})
    /\ UNCHANGED <<db, breq, calls>>


\* CreateFilters without the count check: the options found are associated
CreateFiltersUnchecked ==
    /\ req.op = "create" /\ req.pc = "filters"
    /\ tx' = IF Truthy(req.payload.filter_option_ids)
             THEN set_product_filters(
                      tx, req.product_id,
                      filter_options_in(tx, Val(req.payload.filter_option_ids)))
             ELSE tx
    /\ req' = [req EXCEPT !.pc = "images"]
    /\ UNCHANGED <<db, seq, breq, calls>>

\* CreateFilters counting the distinct ids of the list
CreateFiltersDistinct ==
    /\ req.op = "create" /\ req.pc = "filters"
    /\ LET ids == req.payload.filter_option_ids
           filter_options == filter_options_in(tx, Val(ids))
       IN IF ~Truthy(ids)
          THEN /\ req' = [req EXCEPT !.pc = "images"]
               /\ tx' = tx
          ELSE IF Cardinality(filter_options) # Cardinality(Range(Val(ids)))
          THEN /\ req' = Except("Some filter options not found")
               /\ tx' = tx
          ELSE /\ req' = [req EXCEPT !.pc = "images"]
               /\ tx' = set_product_filters(tx, req.product_id, filter_options)
    /\ UNCHANGED <<db, seq, breq, calls>>

\* if payload.filter_option_ids: ... count check ... product.filters = ...
CreateFilters ==
    /\ req.op = "create" /\ req.pc = "filters"
    /\ LET ids == req.payload.filter_option_ids
           filter_options == filter_options_in(tx, Val(ids))
       IN IF ~Truthy(ids)
          THEN /\ req' = [req EXCEPT !.pc = "images"]
               /\ tx' = tx
          ELSE IF Cardinality(filter_options) # Len(Val(ids))
          THEN /\ req' = Except("Some filter options not found")
               /\ tx' = tx
          ELSE /\ req' = [req EXCEPT !.pc = "images"]
               /\ tx' = set_product_filters(tx, req.product_id, filter_options)
    /\ UNCHANGED <<db, seq, breq, calls>>


\* CreateImages with a commit in place of the pending add
CreateImagesCommitting ==
    /\ req.op = "create" /\ req.pc = "images"
    /\ db' = Committed(IF Truthy(req.payload.images)
                       THEN create_product_images(tx, req.rid, req.product_id,
                                                  Val(req.payload.images), 0)
                       ELSE tx)
    /\ tx' = NoTx
    /\ req' = [req EXCEPT !.pc = "characteristics"]
    /\ UNCHANGED <<seq, breq, calls>>

\* if payload.images: self._create_product_images(product.id, payload.images)
CreateImages ==
    /\ req.op = "create" /\ req.pc = "images"
    /\ tx' = IF Truthy(req.payload.images)
             THEN create_product_images(tx, req.rid, req.product_id,
                                        Val(req.payload.images), 0)
             ELSE tx
    /\ req' = [req EXCEPT !.pc = "characteristics"]
    /\ UNCHANGED <<db, seq, breq, calls>>

CreateCharacteristics ==
    /\ req.op = "create" /\ req.pc = "characteristics"
    /\ tx' = IF Truthy(req.payload.characteristics)
             THEN create_product_characteristics(
                      tx, req.rid, req.product_id, Val(req.payload.characteristics))
             ELSE tx
    /\ req' = [req EXCEPT !.pc = "variations"]
    /\ UNCHANGED <<db, seq, breq, calls>>

CreateVariations ==
    /\ req.op = "create" /\ req.pc = "variations"
    /\ tx' = IF Truthy(req.payload.variations)
             THEN create_variations(tx, req.rid, req.product_id,
                                    Val(req.payload.variations))
             ELSE tx
    /\ req' = [req EXCEPT !.pc = "commit"]
    /\ UNCHANGED <<db, seq, breq, calls>>

\* self.db.commit(); the response is built from the re-read aggregate
CreateCommit ==
    /\ req.op = "create" /\ req.pc = "commit"
    /\ db' = Committed(tx)
    /\ tx' = NoTx
    /\ req' = [req EXCEPT !.pc = "done", !.code = 201]
    /\ UNCHANGED <<seq, breq, calls>>

\* except Exception: self.db.rollback(); raise HTTPException(400)
CreateExcept ==
    /\ req.op = "create" /\ req.pc = "except"
    /\ tx' = NoTx
    /\ req' = [req EXCEPT !.pc = "done", !.code = 400]
    /\ UNCHANGED <<db, seq, breq, calls>>

----------------------------------------------------------------------------
(* ProductService.update_complete (product_service.py 234-281). *)

\* get_raw(product_id): the rows with that id (at most one: primary key)
get_raw(s, product_id) == {p \in Tbl(s, "products") : p.id = product_id}

\* for field, value in data.items(): setattr(product, field, value)
\* data holds the scalar fields the payload sets (exclude_unset)
set_scalars(product, payload) ==
    [product EXCEPT
        !.name = IF IsSet(payload.name) THEN Val(payload.name) ELSE @,
        !.category_id =
            IF IsSet(payload.category_id) THEN Val(payload.category_id) ELSE @,
        !.price = IF IsSet(payload.price) THEN Val(payload.price) ELSE @,
        !.quantity = IF IsSet(payload.quantity) THEN Val(payload.quantity) ELSE @,
        !.status = IF IsSet(payload.status) THEN Val(payload.status) ELSE @]

\* lines 236-245: lookup, ownership check, scalar fields
UpdateBegin(product_id, payload, vendor_profile_id) ==
    /\ Idle
    /\ seq' = seq + 1
    /\ LET r == [op |-> "update", pc |-> "filters", rid |-> seq + 1,
                 product_id |-> product_id,
                 vendor_profile_id |-> vendor_profile_id,
                 payload |-> payload, code |-> 0, detail |-> "",
                     before |-> Catalog(db)]
           found == get_raw(NoTx, product_id)
       IN IF found = {}
          THEN /\ req' = [r EXCEPT !.pc = "raise", !.code = 404,
                                  !.detail = "Product not found"]
               /\ tx' = NoTx
          ELSE LET product == CHOOSE p \in found : TRUE
               IN IF str(product.vendor_profile_id) # str(vendor_profile_id)
                  THEN /\ req' = [r EXCEPT !.pc = "raise", !.code = 403,
                                          !.detail = "Not authorized"]
                       /\ tx' = NoTx
                  ELSE /\ req' = r
                       /\ tx' = Add(Del(NoTx, "products", {product}), "products",
                                    {set_scalars(product, payload)})
    /\ UNCHANGED <<db, breq, calls>>


\* UpdateFilters testing the list for truth, not for None
UpdateFiltersTruthy ==
    /\ req.op = "update" /\ req.pc = "filters"
    /\ LET ids == req.payload.filter_option_ids
           filter_options == filter_options_in(tx, Val(ids))
       IN IF ~Truthy(ids)
          THEN /\ req' = [req EXCEPT !.pc = "images"]
               /\ tx' = tx
          ELSE IF Cardinality(filter_options) # Len(Val(ids))
          THEN /\ req' = Raise(400, "Some filter options not found")
               /\ tx' = tx
          ELSE /\ req' = [req EXCEPT !.pc = "images"]
               /\ tx' = set_product_filters(tx, req.product_id, filter_options)
    /\ UNCHANGED <<db, seq, breq, calls>>

\* lines 247-260
UpdateFilters ==
    /\ req.op = "update" /\ req.pc = "filters"
    /\ LET ids == req.payload.filter_option_ids
           current_filter_ids ==
               {pf.filter_option_id :
                   pf \in {x \in Tbl(tx, "product_filters") :
                              x.product_id = req.product_id}}
           new_filter_ids == Range(Val(ids))
           filter_options == filter_options_in(tx, Val(ids))
       IN IF ~IsSet(ids)
          THEN /\ req' = [req EXCEPT !.pc = "images"]
               /\ tx' = tx
          ELSE IF current_filter_ids = new_filter_ids
          THEN /\ req' = [req EXCEPT !.pc = "images"]
               /\ tx' = tx
          ELSE IF Len(Val(ids)) = 0
          THEN /\ req' = [req EXCEPT !.pc = "images"]
               /\ tx' = set_product_filters(tx, req.product_id, {})
          ELSE IF Cardinality(filter_options) # Len(Val(ids))
          THEN /\ req' = Raise(400, "Some filter options not found")
               /\ tx' = tx
          ELSE /\ req' = [req EXCEPT !.pc = "images"]
               /\ tx' = set_product_filters(tx, req.product_id, filter_options)
    /\ UNCHANGED <<db, seq, breq, calls>>

\* query(T).filter(T.product_id == product_id).delete(): a bulk DELETE, which
\* runs no ORM cascade
bulk_delete_by_product(s, t, product_id) ==
    Del(s, t, {r \in Tbl(s, t) : r.product_id = product_id})


\* UpdateImages committing the replaced images at once
UpdateImagesCommitting ==
    /\ req.op = "update" /\ req.pc = "images"
    /\ LET images == req.payload.images
           s1 == bulk_delete_by_product(tx, "product_images", req.product_id)
       IN db' = Committed(IF ~IsSet(images) THEN tx
                          ELSE IF Val(images) # <<>>
                          THEN create_product_images(s1, req.rid, req.product_id,
                                                     Val(images), 0)
                          ELSE s1)
    /\ tx' = NoTx
    /\ req' = [req EXCEPT !.pc = "characteristics"]
    /\ UNCHANGED <<seq, breq, calls>>

\* UpdateImages adding the new images to the ones there are
UpdateImagesMerging ==
    /\ req.op = "update" /\ req.pc = "images"
    /\ tx' = IF Truthy(req.payload.images)
             THEN create_product_images(tx, req.rid, req.product_id,
                                        Val(req.payload.images), 0)
             ELSE tx
    /\ req' = [req EXCEPT !.pc = "characteristics"]
    /\ UNCHANGED <<db, seq, breq, calls>>

\* lines 262-265
UpdateImages ==
    /\ req.op = "update" /\ req.pc = "images"
    /\ LET images == req.payload.images
           s1 == bulk_delete_by_product(tx, "product_images", req.product_id)
       IN tx' = IF ~IsSet(images) THEN tx
                ELSE IF Val(images) # <<>>
                THEN create_product_images(s1, req.rid, req.product_id,
                                           Val(images), 0)
                ELSE s1
    /\ req' = [req EXCEPT !.pc = "characteristics"]
    /\ UNCHANGED <<db, seq, breq, calls>>

\* lines 267-270
UpdateCharacteristics ==
    /\ req.op = "update" /\ req.pc = "characteristics"
    /\ LET characteristics == req.payload.characteristics
           s1 == bulk_delete_by_product(tx, "product_characteristics",
                                        req.product_id)
       IN tx' = IF ~IsSet(characteristics) THEN tx
                ELSE IF Val(characteristics) # <<>>
                THEN create_product_characteristics(
                         s1, req.rid, req.product_id, Val(characteristics))
                ELSE s1
    /\ req' = [req EXCEPT !.pc = "variations"]
    /\ UNCHANGED <<db, seq, breq, calls>>

\* rows of variation_images / variation_characteristics that reference one of
\* the variations (ForeignKey('product_variations.id'), no ON DELETE rule:
\* image.py 23, characteristic.py 61)
variation_children(s, variations) ==
    LET ids == {v.id : v \in variations}
    IN {r \in Tbl(s, "variation_images") \cup Tbl(s, "variation_characteristics") :
           r.variation_id \in ids}


\* UpdateVariations testing the list for truth, not for None
UpdateVariationsTruthy ==
    /\ req.op = "update" /\ req.pc = "variations"
    /\ LET variations == req.payload.variations
           old == {v \in Tbl(tx, "product_variations") :
                      v.product_id = req.product_id}
           s1 == bulk_delete_by_product(tx, "product_variations", req.product_id)
       IN IF ~Truthy(variations)
          THEN /\ tx' = tx
               /\ req' = [req EXCEPT !.pc = "commit"]
          ELSE IF variation_children(tx, old) # {}
          THEN /\ tx' = tx
               /\ req' = Raise(500, "IntegrityError")
          ELSE /\ tx' = create_variations(s1, req.rid, req.product_id,
                                          Val(variations))
               /\ req' = [req EXCEPT !.pc = "commit"]
    /\ UNCHANGED <<db, seq, breq, calls>>

\* UpdateVariations on a schema whose variation_images and
\* variation_characteristics carry no foreign key to product_variations
UpdateVariationsUnconstrained ==
    /\ req.op = "update" /\ req.pc = "variations"
    /\ LET variations == req.payload.variations
           s1 == bulk_delete_by_product(tx, "product_variations", req.product_id)
       IN tx' = IF ~IsSet(variations) THEN tx
                ELSE IF Val(variations) # <<>>
                THEN create_variations(s1, req.rid, req.product_id,
                                       Val(variations))
                ELSE s1
    /\ req' = [req EXCEPT !.pc = "commit"]
    /\ UNCHANGED <<db, seq, breq, calls>>

\* lines 272-275: the bulk DELETE of the product's variations violates the
\* foreign keys of their image and characteristic rows, if there are any
UpdateVariations ==
    /\ req.op = "update" /\ req.pc = "variations"
    /\ LET variations == req.payload.variations
           old == {v \in Tbl(tx, "product_variations") :
                      v.product_id = req.product_id}
           s1 == bulk_delete_by_product(tx, "product_variations", req.product_id)
       IN IF ~IsSet(variations)
          THEN /\ tx' = tx
               /\ req' = [req EXCEPT !.pc = "commit"]
          ELSE IF variation_children(tx, old) # {}
          THEN /\ tx' = tx
               /\ req' = Raise(500, "IntegrityError")
          ELSE /\ tx' = IF Val(variations) # <<>>
                        THEN create_variations(s1, req.rid, req.product_id,
                                               Val(variations))
                        ELSE s1
               /\ req' = [req EXCEPT !.pc = "commit"]
    /\ UNCHANGED <<db, seq, breq, calls>>

\* lines 277-281: self.db.commit()
UpdateCommit ==
    /\ req.op = "update" /\ req.pc = "commit"
    /\ db' = Committed(tx)
    /\ tx' = NoTx
    /\ req' = [req EXCEPT !.pc = "done", !.code = 200]
    /\ UNCHANGED <<seq, breq, calls>>

----------------------------------------------------------------------------
(* ProductService.delete / delete_for_admin (product_service.py 283-306,   *)
(* 522-543).                                                               *)

\* text("DELETE FROM basket_items WHERE product_id = :product_id") and
\* text("DELETE FROM favorites WHERE product_id = :product_id")
remove_from_basket_and_favorites(s, product_id) ==
    bulk_delete_by_product(
        bulk_delete_by_product(s, "basket_items", product_id),
        "favorites", product_id)

\* delete_cascade with no cascade declared on ProductVariation
delete_cascade_variations_only(s, product) ==
    LET of_product(t) == {r \in Tbl(s, t) : r.product_id = product.id}
        s3 == Del(s, "product_variations", of_product("product_variations"))
        s4 == Del(s3, "product_images", of_product("product_images"))
        s5 == Del(s4, "product_characteristics",
                  of_product("product_characteristics"))
        s6 == Del(s5, "favorites", of_product("favorites"))
        s7 == Del(s6, "product_filters", of_product("product_filters"))
    IN Del(s7, "products", {product})

\* db.delete(product) at flush: the rows the relationships of Product and
\* ProductVariation declared cascade='all, delete-orphan' reach, the
\* association rows of Product.filters, and the product row
delete_cascade(s, product) ==
    LET of_product(t) == {r \in Tbl(s, t) : r.product_id = product.id}
        variations == of_product("product_variations")
        variation_ids == {v.id : v \in variations}
        of_variations(t) == {r \in Tbl(s, t) : r.variation_id \in variation_ids}
        s1 == Del(s, "variation_characteristics",
                  of_variations("variation_characteristics"))
        s2 == Del(s1, "variation_images", of_variations("variation_images"))
        s3 == Del(s2, "product_variations", variations)
        s4 == Del(s3, "product_images", of_product("product_images"))
        s5 == Del(s4, "product_characteristics",
                  of_product("product_characteristics"))
        s6 == Del(s5, "favorites", of_product("favorites"))
        s7 == Del(s6, "product_filters", of_product("product_filters"))
    IN Del(s7, "products", {product})

\* Product.basket_items declares no cascade: at flush the ORM sets the
\* product_id of the product's basket items to NULL, which the column
\* (nullable=False) refuses
basket_items_of(s, product_id) ==
    {i \in Tbl(s, "basket_items") : i.product_id = product_id}

\* DeleteBegin without the comparison of the vendor ids
DeleteBeginUnowned(product_id, vendor_profile_id) ==
    /\ Idle
    /\ seq' = seq + 1
    /\ LET r == [op |-> "delete", pc |-> "flush", rid |-> seq + 1,
                 product_id |-> product_id,
                 vendor_profile_id |-> vendor_profile_id,
                 payload |-> NoPayload, code |-> 0, detail |-> "",
                 before |-> Catalog(db)]
       IN IF get_raw(NoTx, product_id) = {}
          THEN /\ req' = [r EXCEPT !.pc = "raise", !.code = 404,
                                  !.detail = "Product not found"]
               /\ tx' = NoTx
          ELSE /\ req' = r
               /\ tx' = remove_from_basket_and_favorites(NoTx, product_id)
    /\ UNCHANGED <<db, breq, calls>>

\* delete, lines 285-296
DeleteBegin(product_id, vendor_profile_id) ==
    /\ Idle
    /\ seq' = seq + 1
    /\ LET r == [op |-> "delete", pc |-> "flush", rid |-> seq + 1,
                 product_id |-> product_id,
                 vendor_profile_id |-> vendor_profile_id,
                 payload |-> NoPayload, code |-> 0, detail |-> "",
                 before |-> Catalog(db)]
           found == get_raw(NoTx, product_id)
       IN IF found = {}
          THEN /\ req' = [r EXCEPT !.pc = "raise", !.code = 404,
                                  !.detail = "Product not found"]
               /\ tx' = NoTx
          ELSE LET product == CHOOSE p \in found : TRUE
               IN IF str(product.vendor_profile_id) # str(vendor_profile_id)
                  THEN /\ req' = [r EXCEPT !.pc = "raise", !.code = 403,
                                          !.detail = "Not authorized"]
                       /\ tx' = NoTx
                  ELSE /\ req' = r
                       /\ tx' = remove_from_basket_and_favorites(NoTx, product_id)
    /\ UNCHANGED <<db, breq, calls>>

\* delete_for_admin, lines 524-532
AdminDeleteBegin(product_id) ==
    /\ Idle
    /\ seq' = seq + 1
    /\ LET r == [op |-> "delete_for_admin", pc |-> "flush", rid |-> seq + 1,
                 product_id |-> product_id, vendor_profile_id |-> 0,
                 payload |-> NoPayload, code |-> 0, detail |-> "",
                 before |-> Catalog(db)]
       IN IF get_raw(NoTx, product_id) = {}
          THEN /\ req' = [r EXCEPT !.pc = "raise", !.code = 404,
                                  !.detail = "Product not found"]
               /\ tx' = NoTx
          ELSE /\ req' = r
               /\ tx' = remove_from_basket_and_favorites(NoTx, product_id)
    /\ UNCHANGED <<db, breq, calls>>

\* DeleteCommit on a schema that does not constrain basket_items.product_id
DeleteCommitUnconstrained ==
    /\ req.op \in {"delete", "delete_for_admin"} /\ req.pc = "flush"
    /\ LET product == CHOOSE p \in get_raw(tx, req.product_id) : TRUE
       IN db' = Committed(delete_cascade(tx, product))
    /\ tx' = NoTx
    /\ req' = [req EXCEPT !.pc = "done", !.code = 200]
    /\ UNCHANGED <<seq, breq, calls>>

\* self.db.delete(product); self.db.commit()   (lines 299-300, 535-536)
DeleteCommit ==
    /\ req.op \in {"delete", "delete_for_admin"} /\ req.pc = "flush"
    /\ LET product == CHOOSE p \in get_raw(tx, req.product_id) : TRUE
       IN IF basket_items_of(tx, req.product_id) # {}
          THEN /\ req' = Except("IntegrityError")
               /\ UNCHANGED <<db, tx>>
          ELSE /\ db' = Committed(delete_cascade(tx, product))
               /\ tx' = NoTx
               /\ req' = [req EXCEPT !.pc = "done", !.code = 200]
    /\ UNCHANGED <<seq, breq, calls>>

\* except Exception: self.db.rollback(); raise HTTPException(400)
DeleteExcept ==
    /\ req.op \in {"delete", "delete_for_admin"} /\ req.pc = "except"
    /\ tx' = NoTx
    /\ req' = [req EXCEPT !.pc = "done", !.code = 400]
    /\ UNCHANGED <<db, seq, breq, calls>>

----------------------------------------------------------------------------
(* Failures and the end of a request. *)

\* a statement or the commit of the request in flight fails in the database
\* (connection lost, a constraint on a column the model leaves out): inside
\* the try block of create and delete, uncaught in update_complete
DbError ==
    /\ req.pc \in {"filters", "images", "characteristics", "variations",
                   "commit", "flush"}
    /\ req' = IF req.op = "update"
              THEN Raise(500, "OperationalError")
              ELSE Except("OperationalError")
    /\ UNCHANGED <<db, seq, tx, breq, calls>>

\* get_db: the request's session is closed when the handler returns or
\* raises, which abandons the open transaction
SessionClose ==
    /\ req.pc = "raise"
    /\ tx' = NoTx
    /\ req' = [req EXCEPT !.pc = "done"]
    /\ UNCHANGED <<db, seq, breq, calls>>

----------------------------------------------------------------------------
(* BasketService (basket_service.py).  A basket request runs in a session  *)
(* of its own and commits as it goes; it waits for a row that the open     *)
(* transaction of a product request has deleted (the row is locked).       *)

Locked(t, rows) == rows \cap tx.del[t] # {}

\* the outcome reported to the client
Outcome(op, rid, user_id, product_id, item_id, quantity, code, detail) ==
    [op |-> op, rid |-> rid, user_id |-> user_id, product_id |-> product_id,
     item_id |-> item_id, quantity |-> quantity, code |-> code,
     detail |-> detail, available |-> 0]

\* detail=f"Not enough quantity available. Available: {product.quantity}"
NotEnough(outcome, product) ==
    [outcome EXCEPT !.code = 400, !.detail = "Not enough quantity",
                    !.available = product.quantity]

\* get_or_create_basket, lines 17-27: the tables after the call
get_or_create_basket(d, rid, user_id) ==
    IF \E b \in d.baskets : b.user_id = user_id
    THEN d
    ELSE [d EXCEPT !.baskets = @ \cup {[id |-> rid * IdStride + 1,
                                        user_id |-> user_id]}]

\* AddItem storing the requested quantity in place of the sum
AddItemReplacing(user_id, product_id, quantity) ==
    /\ seq' = seq + 1
    /\ LET rid == seq + 1
           out(code, detail) == Outcome("add_item", rid, user_id, product_id, 0,
                                        quantity, code, detail)
           found == {p \in db.products : p.id = product_id}
       IN IF found = {}
          THEN db' = db /\ breq' = out(404, "Product not found")
          ELSE LET product == CHOOSE p \in found : TRUE
                   d1 == get_or_create_basket(db, rid, user_id)
               IN IF product.status # "approved"
                  THEN db' = db /\ breq' = out(400, "Product is not available")
                  ELSE IF product.quantity < quantity
                  THEN db' = db /\ breq' = out(400, "Not enough quantity")
                  ELSE \E basket \in {b \in d1.baskets : b.user_id = user_id} :
                       LET existing ==
                               {i \in d1.basket_items :
                                   /\ i.basket_id = basket.id
                                   /\ i.product_id = product_id}
                           basket_item == [id |-> rid * IdStride + 1,
                                           basket_id |-> basket.id,
                                           product_id |-> product_id,
                                           quantity |-> quantity]
                       IN /\ ~Locked("basket_items", existing)
                          /\ db' = [d1 EXCEPT !.basket_items =
                                       (@ \ existing) \cup
                                       IF existing = {} THEN {basket_item}
                                       ELSE {[i EXCEPT !.quantity = quantity] :
                                                i \in existing}]
                          /\ breq' = out(200, "")
    /\ UNCHANGED <<req, tx, calls>>

\* AddItem without the check of the product's status
AddItemAnyStatus(user_id, product_id, quantity) ==
    /\ seq' = seq + 1
    /\ LET rid == seq + 1
           out(code, detail) == Outcome("add_item", rid, user_id, product_id, 0,
                                        quantity, code, detail)
           found == {p \in db.products : p.id = product_id}
       IN IF found = {}
          THEN db' = db /\ breq' = out(404, "Product not found")
          ELSE LET product == CHOOSE p \in found : TRUE
                   d1 == get_or_create_basket(db, rid, user_id)
               IN IF product.quantity < quantity
                  THEN db' = db /\ breq' = NotEnough(out(400, ""), product)
                  ELSE \E basket \in {b \in d1.baskets : b.user_id = user_id} :
                       LET existing ==
                               {i \in d1.basket_items :
                                   /\ i.basket_id = basket.id
                                   /\ i.product_id = product_id}
                       IN /\ ~Locked("basket_items", existing)
                          /\ db' = [d1 EXCEPT !.basket_items =
                                       (@ \ existing) \cup
                                       IF existing = {}
                                       THEN {[id |-> rid * IdStride + 1,
                                              basket_id |-> basket.id,
                                              product_id |-> product_id,
                                              quantity |-> quantity]}
                                       ELSE {[e EXCEPT !.quantity = @ + quantity] :
                                                e \in existing}]
                          /\ breq' = out(200, "")
    /\ UNCHANGED <<req, tx, calls>>

\* add_item, lines 46-102
AddItem(user_id, product_id, quantity) ==
    /\ seq' = seq + 1
    /\ LET rid == seq + 1
           out(code, detail) == Outcome("add_item", rid, user_id, product_id, 0,
                                        quantity, code, detail)
           found == {p \in db.products : p.id = product_id}
       IN IF found = {}
          THEN db' = db /\ breq' = out(404, "Product not found")
          ELSE LET product == CHOOSE p \in found : TRUE
                   d1 == get_or_create_basket(db, rid, user_id)
               IN IF product.status # "approved"
                  THEN db' = db /\ breq' = out(400, "Product is not available")
                  ELSE IF product.quantity < quantity
                  THEN db' = db /\ breq' = NotEnough(out(400, ""), product)
                  ELSE \E basket \in {b \in d1.baskets : b.user_id = user_id} :
                       LET existing ==
                               {i \in d1.basket_items :
                                   /\ i.basket_id = basket.id
                                   /\ i.product_id = product_id}
                           basket_item == [id |-> rid * IdStride + 1,
                                           basket_id |-> basket.id,
                                           product_id |-> product_id,
                                           quantity |-> quantity]
                       IN IF existing = {}
                          THEN /\ db' = [d1 EXCEPT !.basket_items =
                                                       @ \cup {basket_item}]
                               /\ breq' = out(200, "")
                          ELSE \E existing_item \in existing :
                               LET new_quantity ==
                                       existing_item.quantity + quantity
                               IN /\ ~Locked("basket_items", {existing_item})
                                  /\ IF product.quantity < new_quantity
                                     THEN /\ db' = d1
                                          /\ breq' = NotEnough(out(400, ""), product)
                                     ELSE /\ db' = [d1 EXCEPT !.basket_items =
                                                (@ \ {existing_item}) \cup
                                                {[existing_item EXCEPT
                                                    !.quantity = new_quantity]}]
                                          /\ breq' = out(200, "")
    /\ UNCHANGED <<req, tx, calls>>

\* UpdateItem looking the item up by its id alone
UpdateItemAnyBasket(user_id, item_id, quantity) ==
    /\ seq' = seq + 1
    /\ LET rid == seq + 1
           out(code, detail) == Outcome("update_item", rid, user_id, 0, item_id,
                                        quantity, code, detail)
           d1 == get_or_create_basket(db, rid, user_id)
           found == {i \in d1.basket_items : i.id = item_id}
       IN IF found = {}
          THEN db' = d1 /\ breq' = out(404, "Basket item not found")
          ELSE LET basket_item == CHOOSE i \in found : TRUE
                   product == CHOOSE p \in d1.products :
                                  p.id = basket_item.product_id
               IN /\ ~Locked("basket_items", {basket_item})
                  /\ IF product.quantity < quantity
                     THEN db' = d1 /\ breq' = NotEnough(out(400, ""), product)
                     ELSE /\ db' = [d1 EXCEPT !.basket_items =
                                       (@ \ {basket_item}) \cup
                                       {[basket_item EXCEPT
                                           !.quantity = quantity]}]
                          /\ breq' = out(200, "")
    /\ UNCHANGED <<req, tx, calls>>

\* update_item, lines 104-132
UpdateItem(user_id, item_id, quantity) ==
    /\ seq' = seq + 1
    /\ LET rid == seq + 1
           out(code, detail) == Outcome("update_item", rid, user_id, 0, item_id,
                                        quantity, code, detail)
           d1 == get_or_create_basket(db, rid, user_id)
       IN \E basket \in {b \in d1.baskets : b.user_id = user_id} :
          LET found == {i \in d1.basket_items :
                           i.id = item_id /\ i.basket_id = basket.id}
          IN IF found = {}
             THEN db' = d1 /\ breq' = out(404, "Basket item not found")
             ELSE LET basket_item == CHOOSE i \in found : TRUE
                      product == CHOOSE p \in d1.products :
                                     p.id = basket_item.product_id
                  IN /\ ~Locked("basket_items", {basket_item})
                     /\ IF product.quantity < quantity
                        THEN db' = d1 /\ breq' = NotEnough(out(400, ""), product)
                        ELSE /\ db' = [d1 EXCEPT !.basket_items =
                                          (@ \ {basket_item}) \cup
                                          {[basket_item EXCEPT
                                              !.quantity = quantity]}]
                             /\ breq' = out(200, "")
    /\ UNCHANGED <<req, tx, calls>>

\* remove_item, lines 134-152
RemoveItem(user_id, item_id) ==
    /\ seq' = seq + 1
    /\ LET rid == seq + 1
           out(code, detail) == Outcome("remove_item", rid, user_id, 0, item_id,
                                        0, code, detail)
           d1 == get_or_create_basket(db, rid, user_id)
       IN \E basket \in {b \in d1.baskets : b.user_id = user_id} :
          LET found == {i \in d1.basket_items :
                           i.id = item_id /\ i.basket_id = basket.id}
          IN IF found = {}
             THEN db' = d1 /\ breq' = out(404, "Basket item not found")
             ELSE /\ ~Locked("basket_items", found)
                  /\ db' = [d1 EXCEPT !.basket_items = @ \ found]
                  /\ breq' = out(204, "")
    /\ UNCHANGED <<req, tx, calls>>

----------------------------------------------------------------------------
(* favorite_service.py *)

\* get_favorite, lines 54-62
get_favorite(d, user_id, product_id) ==
    {f \in d.favorites : f.user_id = user_id /\ f.product_id = product_id}

\* CreateFavorite without the lookup of an existing favorite
CreateFavoriteAlways(user_id, product_id) ==
    /\ seq' = seq + 1
    /\ LET rid == seq + 1
           out(item_id, code, detail) ==
               Outcome("create_favorite", rid, user_id, product_id, item_id, 0,
                       code, detail)
       IN IF \A p \in db.products : p.id # product_id
          THEN db' = db /\ breq' = out(0, 404, "Product not found")
          ELSE /\ db' = [db EXCEPT !.favorites =
                            @ \cup {[id |-> rid * IdStride + 1,
                                     user_id |-> user_id,
                                     product_id |-> product_id]}]
               /\ breq' = out(rid * IdStride + 1, 201, "")
    /\ UNCHANGED <<req, tx, calls>>

\* create_favorite, lines 64-79; the outcome names the row returned
CreateFavorite(user_id, product_id) ==
    /\ seq' = seq + 1
    /\ LET rid == seq + 1
           out(item_id, code, detail) ==
               Outcome("create_favorite", rid, user_id, product_id, item_id, 0,
                       code, detail)
           existing == get_favorite(db, user_id, product_id)
       IN IF existing # {}
          THEN /\ db' = db
               /\ breq' = out((CHOOSE f \in existing : TRUE).id, 201, "existing")
          ELSE IF \A p \in db.products : p.id # product_id
          THEN db' = db /\ breq' = out(0, 404, "Product not found")
          ELSE /\ db' = [db EXCEPT !.favorites =
                            @ \cup {[id |-> rid * IdStride + 1,
                                     user_id |-> user_id,
                                     product_id |-> product_id]}]
               /\ breq' = out(rid * IdStride + 1, 201, "")
    /\ UNCHANGED <<req, tx, calls>>

\* remove_favorite, lines 81-89
RemoveFavorite(user_id, product_id) ==
    /\ seq' = seq + 1
    /\ LET rid == seq + 1
           out(code, detail) == Outcome("remove_favorite", rid, user_id,
                                        product_id, 0, 0, code, detail)
           fav == get_favorite(db, user_id, product_id)
       IN IF fav = {}
          THEN db' = db /\ breq' = out(404, "Favorite not found")
          ELSE /\ ~Locked("favorites", fav)
               /\ db' = [db EXCEPT !.favorites = @ \ fav]
               /\ breq' = out(204, "")
    /\ UNCHANGED <<req, tx, calls>>

----------------------------------------------------------------------------
(* Reads of the basket (basket_service.py) and the admin's status update   *)
(* (product_service.py 502-520).                                           *)

\* the response of a request that returns a body
Response(op, rid, user_id, code, body) ==
    [op |-> op, rid |-> rid, user_id |-> user_id, product_id |-> 0,
     item_id |-> 0, quantity |-> 0, code |-> code, detail |-> "",
     available |-> 0, body |-> body]

\* item.product: the product row a line names
product_of(d, item) == CHOOSE p \in d.products : p.id = item.product_id

\* get_basket, lines 29-44: the items of the basket, each with its product
GetBasket(user_id) ==
    /\ seq' = seq + 1
    /\ LET rid == seq + 1
           d1 == get_or_create_basket(db, rid, user_id)
       IN \E basket \in {b \in d1.baskets : b.user_id = user_id} :
          LET items == {i \in d1.basket_items : i.basket_id = basket.id}
          IN /\ db' = d1
             /\ breq' = Response("get_basket", rid, user_id, 200,
                                 {[id |-> i.id, product_id |-> i.product_id,
                                   quantity |-> i.quantity,
                                   product |-> product_of(d1, i)] : i \in items})
    /\ UNCHANGED <<req, tx, calls>>

\* sum(item.quantity for item in basket.items)
RECURSIVE sum_quantity(_)
sum_quantity(items) ==
    IF items = {} THEN 0
    ELSE LET item == CHOOSE i \in items : TRUE
         IN item.quantity + sum_quantity(items \ {item})

\* sum_price at the prices the catalog had when the last product request
\* began
RECURSIVE sum_price_snapshot(_, _)
sum_price_snapshot(d, items) ==
    IF items = {} THEN 0
    ELSE LET item == CHOOSE i \in items : TRUE
             known == {p \in req.before.products : p.id = item.product_id}
         IN item.quantity * (IF known = {} THEN 0
                             ELSE (CHOOSE p \in known : TRUE).price)
                + sum_price_snapshot(d, items \ {item})

\* sum(float(item.quantity * item.product.price) for item in basket.items)
RECURSIVE sum_price(_, _)
sum_price(d, items) ==
    IF items = {} THEN 0
    ELSE LET item == CHOOSE i \in items : TRUE
         IN item.quantity * product_of(d, item).price
                + sum_price(d, items \ {item})

\* get_basket_total, lines 161-172
GetBasketTotal(user_id) ==
    /\ seq' = seq + 1
    /\ LET rid == seq + 1
           d1 == get_or_create_basket(db, rid, user_id)
       IN \E basket \in {b \in d1.baskets : b.user_id = user_id} :
          LET items == {i \in d1.basket_items : i.basket_id = basket.id}
          IN /\ db' = d1
             /\ breq' = Response("get_basket_total", rid, user_id, 200,
                                 [total_quantity |-> sum_quantity(items),
                                  total_price |-> sum_price(d1, items),
                                  items_count |-> Cardinality(items)])
    /\ UNCHANGED <<req, tx, calls>>

ProductStatuses == {"draft", "pending", "approved", "rejected"}

\* update_product_status, lines 502-520
UpdateProductStatus(product_id, new_status) ==
    /\ seq' = seq + 1
    /\ LET out(code, detail) ==
               Outcome("update_product_status", seq + 1, 0, product_id, 0, 0,
                       code, detail)
           found == {p \in db.products : p.id = product_id}
       IN IF new_status \notin ProductStatuses
          THEN db' = db /\ breq' = out(400, "Invalid status")
          ELSE IF found = {}
          THEN db' = db /\ breq' = out(404, "Product not found")
          ELSE /\ ~Locked("products", found)
               /\ db' = [db EXCEPT !.products =
                            (@ \ found) \cup
                            {[p EXCEPT !.status = new_status] : p \in found}]
               /\ breq' = out(200, "")
    /\ UNCHANGED <<req, tx, calls>>

----------------------------------------------------------------------------
(* BasketService.add_item statement by statement: each connection runs its *)
(* request in a session of its own, and every query reads what is          *)
(* committed at the moment it runs.                                        *)

\* the call on connection c ends with this answer
Answer(c, code, detail) ==
    [calls EXCEPT ![c].pc = "done", ![c].code = code, ![c].detail = detail]

\* lines 48-68: the product query and the three checks
CallAddItem(c, user_id, product_id, quantity) ==
    /\ calls[c].pc \in {"idle", "done"}
    /\ seq' = seq + 1
    /\ LET found == {p \in db.products : p.id = product_id}
           call == [NoCall EXCEPT !.op = "add_item", !.rid = seq + 1,
                                  !.user_id = user_id,
                                  !.product_id = product_id,
                                  !.quantity = quantity, !.product = found]
           ends(code, detail) ==
               [calls EXCEPT ![c] = [call EXCEPT !.pc = "done", !.code = code,
                                                 !.detail = detail]]
       IN calls' =
              IF found = {} THEN ends(404, "Product not found")
              ELSE LET product == CHOOSE p \in found : TRUE
                   IN IF product.status # "approved"
                      THEN ends(400, "Product is not available")
                      ELSE IF product.quantity < quantity
                      THEN ends(400, "Not enough quantity")
                      ELSE [calls EXCEPT ![c] = [call EXCEPT !.pc = "basket"]]
    /\ UNCHANGED <<db, req, tx, breq>>

\* get_or_create_basket, line 19: the query
CallQueryBasket(c) ==
    /\ calls[c].pc = "basket"
    /\ LET found == {b \in db.baskets : b.user_id = calls[c].user_id}
       IN IF found = {}
          THEN calls' = [calls EXCEPT ![c].pc = "create_basket"]
          ELSE \E basket \in found :
                   calls' = [calls EXCEPT ![c].pc = "existing",
                                          ![c].basket = {basket}]
    /\ UNCHANGED <<db, seq, req, tx, breq>>

\* get_or_create_basket, lines 21-25: no basket was found, one is added and
\* committed; the commit expires what the session had loaded
CallCreateBasket(c) ==
    /\ calls[c].pc = "create_basket"
    /\ LET basket == [id |-> calls[c].rid * IdStride + 1,
                      user_id |-> calls[c].user_id]
       IN /\ db' = [db EXCEPT !.baskets = @ \cup {basket}]
          /\ calls' = [calls EXCEPT ![c].pc = "existing",
                                    ![c].basket = {basket},
                                    ![c].product = {}]
    /\ UNCHANGED <<seq, req, tx, breq>>

\* lines 73-78: the query for a line of the basket with the product
CallQueryExisting(c) ==
    /\ calls[c].pc = "existing"
    /\ LET found == {i \in db.basket_items :
                        /\ i.basket_id \in {b.id : b \in calls[c].basket}
                        /\ i.product_id = calls[c].product_id}
       IN IF found = {}
          THEN calls' = [calls EXCEPT ![c].pc = "write"]
          ELSE \E existing_item \in found :
                   calls' = [calls EXCEPT ![c].pc = "write",
                                          ![c].existing_item = {existing_item}]
    /\ UNCHANGED <<db, seq, req, tx, breq>>

\* product.quantity on line 82: the value loaded on line 49, or the one
\* committed now when a commit has expired it
product_quantity(call) ==
    LET loaded == IF call.product # {} THEN call.product
                  ELSE {p \in db.products : p.id = call.product_id}
    IN (CHOOSE p \in loaded : TRUE).quantity

\* CallWrite on a table with a unique constraint on (basket_id, product_id)
CallWriteUnique(c) ==
    /\ calls[c].pc = "write"
    /\ LET call == calls[c]
           lines == {i \in db.basket_items :
                        /\ i.basket_id \in {b.id : b \in call.basket}
                        /\ i.product_id = call.product_id}
       IN IF call.existing_item = {} /\ lines = {}
          THEN /\ db' = [db EXCEPT !.basket_items = @ \cup
                            {[id |-> call.rid * IdStride + 1,
                              basket_id |-> (CHOOSE b \in call.basket : TRUE).id,
                              product_id |-> call.product_id,
                              quantity |-> call.quantity]}]
               /\ calls' = Answer(c, 200, "")
          ELSE /\ db' = db
               /\ calls' = Answer(c, 500, "IntegrityError")
    /\ UNCHANGED <<seq, req, tx, breq>>

\* lines 80-102: the line found is given the sum, or a new line is added
CallWrite(c) ==
    /\ calls[c].pc = "write"
    /\ LET call == calls[c]
       IN IF call.existing_item # {}
          THEN LET existing_item == CHOOSE i \in call.existing_item : TRUE
                   new_quantity == existing_item.quantity + call.quantity
                   row == {i \in db.basket_items : i.id = existing_item.id}
               IN IF product_quantity(call) < new_quantity
                  THEN /\ db' = db
                       /\ calls' = Answer(c, 400, "Not enough quantity")
                  ELSE IF row = {}
                  THEN /\ db' = db
                       /\ calls' = Answer(c, 500, "StaleDataError")
                  ELSE /\ db' = [db EXCEPT !.basket_items =
                                    (@ \ row) \cup
                                    {[i EXCEPT !.quantity = new_quantity] :
                                        i \in row}]
                       /\ calls' = Answer(c, 200, "")
          ELSE /\ db' = [db EXCEPT !.basket_items = @ \cup
                            {[id |-> call.rid * IdStride + 1,
                              basket_id |-> (CHOOSE b \in call.basket : TRUE).id,
                              product_id |-> call.product_id,
                              quantity |-> call.quantity]}]
               /\ calls' = Answer(c, 200, "")
    /\ UNCHANGED <<seq, req, tx, breq>>

----------------------------------------------------------------------------
(* The status of a vendor profile: the admin's update_vendor_status        *)
(* (admin.py 673-735) with its shortcuts approve and reject, and the       *)
(* vendor's reapply (vendor.py 229-296).                                   *)

VendorStatuses == {"PENDING", "APPROVED", "REJECTED"}

\* update_vendor_status, lines 685-707
UpdateVendorStatus(vendor_id, new_status, reject_reason) ==
    /\ seq' = seq + 1
    /\ LET out(code, detail) ==
               Outcome("update_vendor_status", seq + 1, 0, vendor_id, 0, 0,
                       code, detail)
           found == {v \in db.vendor_profiles : v.id = vendor_id}
       IN IF found = {}
          THEN db' = db /\ breq' = out(404, "Vendor not found")
          ELSE LET vendor_profile == CHOOSE v \in found : TRUE
                   updated ==
                       [vendor_profile EXCEPT
                           !.status = new_status,
                           !.reject_reason =
                               IF new_status = "REJECTED"
                                      /\ IsSet(reject_reason)
                                      /\ Val(reject_reason) # ""
                               THEN reject_reason
                               ELSE IF new_status # "REJECTED" THEN None
                               ELSE @]
               IN /\ db' = [db EXCEPT !.vendor_profiles =
                               (@ \ found) \cup {updated}]
                  /\ breq' = out(200, "")
    /\ UNCHANGED <<req, tx, calls>>

\* approve_vendor, lines 746-747
ApproveVendor(vendor_id) == UpdateVendorStatus(vendor_id, "APPROVED", None)

\* reject_vendor, lines 759-763
RejectVendor(vendor_id, reject_reason) ==
    UpdateVendorStatus(vendor_id, "REJECTED", reject_reason)

\* reapply_vendor, lines 249-276
ReapplyVendor(vendor_id) ==
    /\ seq' = seq + 1
    /\ LET out(code, detail) ==
               Outcome("reapply_vendor", seq + 1, 0, vendor_id, 0, 0,
                       code, detail)
           found == {v \in db.vendor_profiles : v.id = vendor_id}
       IN IF found = {}
          THEN db' = db /\ breq' = out(404, "Vendor profile not found")
          ELSE LET vendor_profile == CHOOSE v \in found : TRUE
               IN IF vendor_profile.status # "REJECTED"
                  THEN db' = db /\ breq' = out(400, "Cannot reapply")
                  ELSE /\ db' = [db EXCEPT !.vendor_profiles =
                                    (@ \ found) \cup
                                    {[vendor_profile EXCEPT
                                        !.status = "PENDING"]}]
                       /\ breq' = out(200, "")
    /\ UNCHANGED <<req, tx, calls>>

----------------------------------------------------------------------------
(* The order flow of denas-backend (app/api/v1/endpoints/orders.py).  That *)
(* application has a database of its own; its tables are orders,           *)
(* order_items and products, the last kept here as denas_products.         *)

\* stock of the product on sale when the first order arrives
InitialStock == 2

DenasProductRows ==
    {[id |-> 1, price |-> 5, stock_quantity |-> InitialStock,
      is_active |-> TRUE]}

OrderStatuses == {"pending", "paid", "cancelled", "completed"}

\* create_order, lines 103-123: the first item that fails validation
RECURSIVE validate_order_items(_, _)
validate_order_items(d, order_items) ==
    IF order_items = <<>> THEN ""
    ELSE LET item == Head(order_items)
             found == {p \in d.denas_products : p.id = item.product_id}
         IN IF found = {} THEN "Product not found"
            ELSE LET product == CHOOSE p \in found : TRUE
                 IN IF ~product.is_active THEN "Product is not available"
                    ELSE IF product.stock_quantity < item.quantity
                    THEN "Insufficient stock"
                    ELSE validate_order_items(d, Tail(order_items))

\* create_order, lines 136-148: an order item per item of the payload, the
\* product's stock reduced by its quantity
RECURSIVE create_order_items(_, _, _, _)
create_order_items(d, order_id, order_items, k) ==
    IF order_items = <<>> THEN d
    ELSE LET item_data == Head(order_items)
             product == CHOOSE p \in d.denas_products :
                            p.id = item_data.product_id
             order_item == [id |-> order_id * IdStride + k,
                            order_id |-> order_id,
                            product_id |-> item_data.product_id,
                            quantity |-> item_data.quantity,
                            price |-> product.price]
         IN create_order_items(
                [d EXCEPT !.order_items = @ \cup {order_item},
                          !.denas_products =
                              (@ \ {product}) \cup
                              {[product EXCEPT !.stock_quantity =
                                                   @ - item_data.quantity]}],
                order_id, Tail(order_items), k + 1)

\* create_order, lines 89-164
CreateOrder(current_user, order_items) ==
    /\ seq' = seq + 1
    /\ LET rid == seq + 1
           out(code, detail) ==
               Outcome("create_order", rid, current_user.id, 0, rid, 0,
                       code, detail)
           invalid == validate_order_items(db, order_items)
           order == [id |-> rid, user_id |-> current_user.id,
                     status |-> "pending"]
       IN IF invalid # ""
          THEN db' = db /\ breq' = out(400, invalid)
          ELSE /\ db' = create_order_items(
                            [db EXCEPT !.orders = @ \cup {order}],
                            rid, order_items, 1)
               /\ breq' = out(201, "")
    /\ UNCHANGED <<req, tx, calls>>

\* lines 206-210: the stock of the product of every item grows by the item's
\* quantity
RECURSIVE restore_stock(_, _)
restore_stock(d, order_items) ==
    IF order_items = {} THEN d
    ELSE LET item == CHOOSE i \in order_items : TRUE
             found == {p \in d.denas_products : p.id = item.product_id}
         IN restore_stock(
                [d EXCEPT !.denas_products =
                     (@ \ found) \cup
                     {[p EXCEPT !.stock_quantity = @ + item.quantity] :
                         p \in found}],
                order_items \ {item})

\* update_order_status, lines 167-229
UpdateOrderStatus(order_id, new_status, current_user) ==
    /\ seq' = seq + 1
    /\ LET out(code, detail) ==
               Outcome("update_order_status", seq + 1, current_user.id, 0,
                       order_id, 0, code, detail)
           found == {o \in db.orders : o.id = order_id}
       IN IF found = {}
          THEN db' = db /\ breq' = out(404, "Order not found")
          ELSE LET order == CHOOSE o \in found : TRUE
                   is_admin == current_user.role \in {"Admin", "Manager"}
                   is_owner == order.user_id = current_user.id
                   order_items == {i \in db.order_items : i.order_id = order_id}
                   d1 == IF new_status = "cancelled" /\ order.status # "cancelled"
                         THEN restore_stock(db, order_items)
                         ELSE db
               IN IF ~is_admin /\ ~is_owner
                  THEN db' = db /\ breq' = out(403, "Not authorized")
                  ELSE IF ~is_admin /\ (new_status # "cancelled"
                                           \/ order.status # "pending")
                  THEN db' = db /\ breq' = out(403, "You can only cancel")
                  ELSE /\ db' = [d1 EXCEPT !.orders =
                                    (@ \ found) \cup
                                    {[order EXCEPT !.status = new_status]}]
                       /\ breq' = out(200, "")
    /\ UNCHANGED <<req, tx, calls>>

----------------------------------------------------------------------------
(* The classification tree: scripts/populate_filters.py writes it from a   *)
(* filter.json, MetadataService.get_all_metadata (metadata_service.py)     *)
(* reads it.                                                               *)

\* the next id of table t for the run rid of the script, which has written
\* the rows of d with an id above rid * IdStride
next_id(d, t, rid) ==
    rid * IdStride + Cardinality({r \in d[t] : r.id > rid * IdStride}) + 1

\* populate_database, lines 40-47: a category per name that has none
RECURSIVE add_categories(_, _, _)
add_categories(d, rid, filters_data) ==
    IF filters_data = <<>> THEN d
    ELSE LET category_name == Head(filters_data).name
             d1 == IF \E c \in d.categories : c.name = category_name
                   THEN d
                   ELSE [d EXCEPT !.categories =
                            @ \cup {[id |-> next_id(d, "categories", rid),
                                     name |-> category_name]}]
         IN add_categories(d1, rid, Tail(filters_data))

\* lines 87-101: an option per value the filter type does not have yet
RECURSIVE add_filter_options(_, _, _, _)
add_filter_options(d, rid, filter_type_id, options) ==
    IF options = <<>> THEN d
    ELSE LET option_value == Head(options)
             d1 == IF \E o \in d.filter_options :
                          /\ o.filter_type_id = filter_type_id
                          /\ o.value = option_value
                   THEN d
                   ELSE [d EXCEPT !.filter_options =
                            @ \cup {[id |-> next_id(d, "filter_options", rid),
                                     filter_type_id |-> filter_type_id,
                                     value |-> option_value]}]
         IN add_filter_options(d1, rid, filter_type_id, Tail(options))

\* lines 66-101: the filter types of one category, each with its options
RECURSIVE add_filter_types(_, _, _, _)
add_filter_types(d, rid, category, filters) ==
    IF filters = <<>> THEN d
    ELSE LET filter_type_name == Head(filters).name
             existing == {ft \in d.filter_types :
                             /\ ft.name = filter_type_name
                             /\ ft.category_id = category.id}
             filter_type ==
                 IF existing # {} THEN CHOOSE ft \in existing : TRUE
                 ELSE [id |-> next_id(d, "filter_types", rid),
                       category_id |-> category.id,
                       name |-> filter_type_name]
             d1 == [d EXCEPT !.filter_types = @ \cup {filter_type}]
         IN add_filter_types(
                add_filter_options(d1, rid, filter_type.id, Head(filters).options),
                rid, category, Tail(filters))

\* lines 57-101: every category of the file, found by its name
RECURSIVE add_filters(_, _, _)
add_filters(d, rid, filters_data) ==
    IF filters_data = <<>> THEN d
    ELSE LET found == {c \in d.categories : c.name = Head(filters_data).name}
             d1 == IF found = {} THEN d
                   ELSE add_filter_types(d, rid, CHOOSE c \in found : TRUE,
                                         Head(filters_data).filters)
         IN add_filters(d1, rid, Tail(filters_data))

\* populate_database, lines 38-50: the categories are added and committed
PopulateCategories(filters_data) ==
    /\ Idle
    /\ seq' = seq + 1
    /\ db' = add_categories(db, seq + 1, filters_data)
    /\ req' = [NoRequest EXCEPT !.op = "populate", !.pc = "filter_types",
                                !.rid = seq + 1, !.payload = filters_data,
                                !.before = Catalog(db)]
    /\ UNCHANGED <<tx, breq, calls>>

\* populate_database, lines 53-104: the filter types and their options are
\* added and committed
PopulateFilters ==
    /\ req.op = "populate" /\ req.pc = "filter_types"
    /\ db' = add_filters(db, req.rid, req.payload)
    /\ req' = [req EXCEPT !.pc = "done"]
    /\ UNCHANGED <<seq, tx, breq, calls>>

\* clear_database (scripts/clear_filters.py), lines 24-60: every option,
\* filter type and category is deleted, unless there is none
ClearDatabase ==
    /\ db.categories # {} \/ db.filter_types # {} \/ db.filter_options # {}
    /\ seq' = seq + 1
    /\ db' = [db EXCEPT !.filter_options = {}, !.filter_types = {},
                        !.categories = {}]
    /\ UNCHANGED <<req, tx, breq, calls>>

\* the options of every filter type, whatever the type asked for
all_options(d, filter_type) ==
    {[id |-> option.id, value |-> option.value] : option \in d.filter_options}

\* get_all_metadata, lines 29-40: options_list
options_list(d, filter_type) ==
    {[id |-> option.id, value |-> option.value] :
        option \in {o \in d.filter_options : o.filter_type_id = filter_type.id}}

\* lines 21-45: category_filters, a dict keyed by the filter type's name; of
\* two filter types of one name the later one read would stay
category_filters(d, category) ==
    LET filter_types == {ft \in d.filter_types : ft.category_id = category.id}
    IN [filter_type_name \in {ft.name : ft \in filter_types} |->
           LET filter_type == CHOOSE ft \in filter_types :
                                  ft.name = filter_type_name
           IN [id |-> filter_type.id,
               options |-> options_list(d, filter_type)]]

\* get_all_metadata, lines 11-52: result, a dict keyed by the category's
\* name; of the categories of one name the one read last stays, and the
\* query has no order
GetAllMetadata ==
    LET names == {c.name : c \in db.categories}
    IN \E last \in [names -> db.categories] :
          /\ \A category_name \in names : last[category_name].name = category_name
          /\ seq' = seq + 1
          /\ breq' = Response("get_all_metadata", seq + 1, 0, 200,
                              [category_name \in names |->
                                  [id |-> last[category_name].id,
                                   filters |->
                                       category_filters(db, last[category_name])]])
          /\ UNCHANGED <<db, req, tx, calls>>

----------------------------------------------------------------------------
(* User management: AuthService.update_user_type and delete_user           *)
(* (auth_service.py), behind PATCH /admin/users/{id}/type and              *)
(* DELETE /admin/users/{id} (routers/admin.py).                            *)

\* models/user.py: UserType
UserTypes == {"USER", "VENDOR", "ADMIN", "SUPERADMIN"}

\* update_user_type without the refusal of SUPERADMIN
update_user_type_any(d, user_id, new_user_type, fails) ==
    LET found == {u \in d.users : u.id = user_id}
    IN IF found = {}
       THEN [success |-> FALSE, message |-> "User not found", db |-> d]
       ELSE IF fails
       THEN [success |-> FALSE, message |-> "Failed to update user type", db |-> d]
       ELSE [success |-> TRUE, message |-> "User type updated",
             db |-> [d EXCEPT !.users =
                        {IF u.id = user_id
                         THEN [u EXCEPT !.user_type = new_user_type]
                         ELSE u : u \in @}]]

\* AuthService.update_user_type, lines 222-253; fails: the commit raises,
\* and the except branch rolls back
update_user_type(d, user_id, new_user_type, fails) ==
    LET found == {u \in d.users : u.id = user_id}
    IN IF found = {}
       THEN [success |-> FALSE, message |-> "User not found", db |-> d]
       ELSE IF new_user_type = "SUPERADMIN"
       THEN [success |-> FALSE,
             message |-> "Cannot create SUPERADMIN users through API", db |-> d]
       ELSE IF fails
       THEN [success |-> FALSE, message |-> "Failed to update user type", db |-> d]
       ELSE [success |-> TRUE, message |-> "User type updated",
             db |-> [d EXCEPT !.users =
                        {IF u.id = user_id
                         THEN [u EXCEPT !.user_type = new_user_type]
                         ELSE u : u \in @}]]

\* AuthService.delete_user, lines 255-280; fails: the delete or the commit
\* raises, and the except branch rolls back
delete_user(d, user_id, fails) ==
    LET found == {u \in d.users : u.id = user_id}
    IN IF found = {}
       THEN [success |-> FALSE, message |-> "User not found", db |-> d]
       ELSE IF \E u \in found : u.user_type = "SUPERADMIN"
       THEN [success |-> FALSE, message |-> "Cannot delete SUPERADMIN users",
             db |-> d]
       ELSE IF fails
       THEN [success |-> FALSE, message |-> "Failed to delete user", db |-> d]
       ELSE [success |-> TRUE, message |-> "User deleted successfully",
             db |-> [d EXCEPT !.users = @ \ found]]

\* PATCH /admin/users/{user_id}/type, routers/admin.py lines 229-273: 400 with
\* the service's message when it did not succeed; the Firebase claims it
\* sets afterwards are not part of the database
UpdateUserType(user_id, new_user_type) ==
    \E fails \in BOOLEAN :
       LET r == update_user_type(db, user_id, new_user_type, fails)
       IN /\ seq' = seq + 1
          /\ db' = r.db
          /\ breq' = [Response("update_user_type", seq + 1, user_id,
                               IF r.success THEN 200 ELSE 400,
                               [user_type |-> new_user_type])
                         EXCEPT !.detail = r.message]
          /\ UNCHANGED <<req, tx, calls>>

\* DELETE /admin/users/{user_id}, routers/admin.py lines 276-307
DeleteUser(user_id) ==
    \E fails \in BOOLEAN :
       LET r == delete_user(db, user_id, fails)
       IN /\ seq' = seq + 1
          /\ db' = r.db
          /\ breq' = [Response("delete_user", seq + 1, user_id,
                               IF r.success THEN 200 ELSE 400, None)
                         EXCEPT !.detail = r.message]
          /\ UNCHANGED <<req, tx, calls>>

----------------------------------------------------------------------------
(* The reads open to everyone: the /products/public routes                 *)
(* (public_product.py) over the queries of ProductService, and the public  *)
(* listing of a vendor's products (vendor.py 365-418).                     *)

Min(a, b) == IF a < b THEN a ELSE b
Max(a, b) == IF a < b THEN b ELSE a

\* the lower-case form of a letter, for the letters product names use
lower(c) ==
    CASE c = "D" -> "d"
      [] c = "S" -> "s"
      [] OTHER -> c

\* Product.name.ilike(f'%{search_query}%'): the name holds the query as a
\* run of letters, whatever their case
ilike(name, search_query) ==
    \E i \in 0..(Len(name) - Len(search_query)) :
        \A j \in 1..Len(search_query) :
            lower(name[i + j]) = lower(search_query[j])

\* query.offset(offset).limit(limit).all() on a query with no ORDER BY: the
\* database returns the rows in an order of its choosing, so a page is any
\* set of as many rows as are left after the offset, up to the limit
pages(rows, limit, offset) ==
    LET skipped == IF IsSet(offset) THEN Val(offset) ELSE 0
        left == Max(0, Cardinality(rows) - skipped)
        n == IF IsSet(limit) THEN Min(left, Val(limit)) ELSE left
    IN {page \in SUBSET rows : Cardinality(page) = n}

\* get_all, lines 341-372: the rows of the WHERE clause
get_all(d, approved_only, category_id, search_query) ==
    {p \in d.products :
        /\ approved_only => p.status = "approved"
        /\ IsSet(category_id) => p.category_id = Val(category_id)
        /\ Truthy(search_query) => ilike(p.name, Val(search_query))}

\* search_products, lines 374-411: as get_all, the query a plain string
search_products(d, search_query, category_id, approved_only) ==
    {p \in d.products :
        /\ approved_only => p.status = "approved"
        /\ IsSet(category_id) => p.category_id = Val(category_id)
        /\ search_query # <<>> => ilike(p.name, search_query)}

\* get_by_vendor, lines 73-93, with no status given
get_by_vendor(d, vendor_profile_id) ==
    {p \in d.products : p.vendor_profile_id = vendor_profile_id}

\* get_by_category, lines 95-106
get_by_category(d, category_id) ==
    {p \in d.products : p.category_id = category_id}

\* search_by_filter_options_only, lines 308-339: the products joined to one
\* of the options; with match_all, the ones whose number of distinct matched
\* options is the length of the list
search_by_filter_options_only(d, filter_option_ids, match_all, approved_only) ==
    LET matched(p) == {pf \in d.product_filters :
                          /\ pf.product_id = p.id
                          /\ pf.filter_option_id \in Range(filter_option_ids)}
    IN IF filter_option_ids = <<>> THEN {}
       ELSE {p \in d.products :
                /\ matched(p) # {}
                /\ approved_only => p.status = "approved"
                /\ match_all =>
                       Cardinality(matched(p)) = Len(filter_option_ids)}

\* a read answers with the products it returns
Read(op, code, body) ==
    /\ seq' = seq + 1
    /\ breq' = Response(op, seq + 1, 0, code, body)
    /\ UNCHANGED <<db, req, tx, calls>>

\* GET /products/public/, lines 19-40
GetAllProducts(limit, offset, category_id, vendor_id, search) ==
    IF IsSet(vendor_id) /\ Val(vendor_id) # 0
    THEN Read("get_all_products", 200,
              {p \in get_by_vendor(db, Val(vendor_id)) : p.status = "approved"})
    ELSE \E page \in pages(get_all(db, TRUE, category_id, search),
                           limit, offset) :
             Read("get_all_products", 200, page)

\* GET /products/public/category/{category_id}, lines 42-52
GetProductsByCategory(category_id) ==
    Read("get_products_by_category", 200,
         {p \in get_by_category(db, category_id) : p.status = "approved"})

\* GET /products/public/search, lines 54-71
SearchProducts(q, limit, offset, category_id) ==
    \E page \in pages(search_products(db, q, category_id, TRUE), limit, offset) :
        Read("search_products", 200, page)

\* GET /products/public/search/filter-options, lines 73-86
SearchProductsByFilterOptionsOnly(filter_option_ids, match_all) ==
    Read("search_products_by_filter_options_only", 200,
         search_by_filter_options_only(db, filter_option_ids, match_all, TRUE))

\* GET /products/public/{product_id}, lines 88-120
GetProductPublic(product_id) ==
    LET found == {p \in db.products : p.id = product_id}
    IN IF found = {}
       THEN Read("get_product_public", 404, {})
       ELSE IF (CHOOSE p \in found : TRUE).status # "approved"
       THEN Read("get_product_public", 404, {})
       ELSE Read("get_product_public", 200, found)

\* GET /vendor/public/{vendor_id}/products/, vendor.py 365-418: the products
\* of an approved vendor, a page of them
GetPublicVendorProducts(vendor_id, limit, offset) ==
    LET found == {v \in db.vendor_profiles : v.id = vendor_id}
    IN IF found = {}
       THEN Read("get_public_vendor_products", 404, {})
       ELSE IF (CHOOSE v \in found : TRUE).status # "APPROVED"
       THEN Read("get_public_vendor_products", 404, {})
       ELSE \E page \in pages(get_by_vendor(db, vendor_id),
                              Some(limit), Some(offset)) :
                Read("get_public_vendor_products", 200, page)

----------------------------------------------------------------------------
(* The payloads the requests are drawn from. *)

\* product names, letter by letter
Drill == <<"D", "r">>
Saw == <<"S", "a", "w">>

ImgA == [url |-> "a.png", order |-> 0]
ImgB == [url |-> "b.png", order |-> 0]
ImgC == [url |-> "c.png", order |-> 5]
CharRed == [type_name |-> "Color", value |-> "red"]
CharBlue == [type_name |-> "Color", value |-> "blue"]
CharL == [type_name |-> "Size", value |-> "L"]
\* a variation with a characteristic and an image of its own
VarCase == [name |-> "Drill+Case", price |-> 55, quantity |-> 10,
            characteristics |-> <<CharBlue>>, images |-> <<ImgA>>]
\* a variation without children
VarPlain == [name |-> "Drill", price |-> 50, quantity |-> 4,
             characteristics |-> <<>>, images |-> <<>>]

\* filter option 3 does not exist
CreateFilterLists == {<<>>, <<1, 2>>, <<1, 3>>}

Children ==
    {[images |-> <<>>, characteristics |-> <<>>, variations |-> <<>>],
     [images |-> <<ImgA, ImgC>>, characteristics |-> <<CharRed, CharL>>,
      variations |-> <<VarCase, VarPlain>>],
     [images |-> <<ImgB>>, characteristics |-> <<CharRed>>,
      variations |-> <<VarPlain>>]}

CatalogCreatePayloads ==
    {[name |-> Some(Drill), category_id |-> Some(1),
      price |-> Some(5), quantity |-> Some(25), status |-> Some("approved"),
      filter_option_ids |-> Some(f), images |-> Some(c.images),
      characteristics |-> Some(c.characteristics),
      variations |-> Some(c.variations)] :
        f \in CreateFilterLists, c \in Children}

\* the fields a payload sets
FieldsSet(payload) == {f \in DOMAIN payload : IsSet(payload[f])}

\* update payloads: every field unset, or set to one of a few values; at
\* most two fields set at a time
CatalogUpdatePayloads ==
    {payload \in
        [name : {None}, category_id : {None},
         price : {None, Some(7)},
         quantity : {None, Some(30)},
         status : {None},
         filter_option_ids : {None, Some(<<>>), Some(<<2>>), Some(<<2, 3>>)},
         images : {None, Some(<<>>), Some(<<ImgB, ImgA>>)},
         characteristics : {None, Some(<<>>), Some(<<CharL>>)},
         variations : {None, Some(<<>>), Some(<<VarCase>>)}] :
        Cardinality(FieldsSet(payload)) <= 2}

----------------------------------------------------------------------------
(* The catalog specification: product requests of the owning vendor, one   *)
(* at a time, each in steps.                                               *)

\* the profile AuthService creates for a vendor who applies: status PENDING
\* by the column default, no reject_reason
VendorProfileRows ==
    {[id |-> v, status |-> "PENDING", reject_reason |-> None] : v \in Vendors}

\* the users table: users registered as USER, one become a vendor, one made
\* ADMIN, and the SUPERADMIN that scripts/create_superadmin.py writes
UserRows ==
    {[id |-> 1, user_type |-> "USER"], [id |-> 2, user_type |-> "VENDOR"],
     [id |-> 3, user_type |-> "ADMIN"], [id |-> 4, user_type |-> "SUPERADMIN"]}

InitDb == [NoRows EXCEPT !.denas_products = DenasProductRows,
                         !.users = UserRows,
                         !.categories = CategoryRows,
                         !.filter_types = FilterTypeRows,
                         !.filter_options = FilterOptionRows,
                         !.vendor_profiles = VendorProfileRows]

Init ==
    /\ db = InitDb
    /\ seq = 0
    /\ req = [NoRequest EXCEPT !.before = Catalog(InitDb)]
    /\ tx = NoTx
    /\ breq = NoBasketRequest
    /\ calls = [c \in Connections |-> NoCall]

\* the steps of the request in flight
RequestStep ==
    \/ CreateFilters
    \/ CreateImages
    \/ CreateCharacteristics
    \/ CreateVariations
    \/ CreateCommit
    \/ CreateExcept
    \/ UpdateFilters
    \/ UpdateImages
    \/ UpdateCharacteristics
    \/ UpdateVariations
    \/ UpdateCommit
    \/ DeleteCommit
    \/ DeleteExcept
    \/ DbError
    \/ SessionClose

NextCatalog ==
    \/ /\ seq < MaxCatalogRequests
       /\ \E payload \in CatalogCreatePayloads : CreateBegin(payload, 1)
    \/ /\ seq < MaxCatalogRequests
       /\ \E product_id \in 1..seq, payload \in CatalogUpdatePayloads :
              UpdateBegin(product_id, payload, 1)
    \/ /\ seq < MaxCatalogRequests
       /\ \E product_id \in 1..seq : DeleteBegin(product_id, 1)
    \/ RequestStep

SpecCatalog == Init /\ [][NextCatalog]_vars

----------------------------------------------------------------------------
(* The reference specification: product requests of two vendors and of the *)
(* admin, in steps, interleaved with the basket and favorite requests of a *)
(* user.                                                                   *)

RefCreatePayloads ==
    {[name |-> Some(Drill), category_id |-> Some(1),
      price |-> Some(5), quantity |-> Some(q), status |-> Some("approved"),
      filter_option_ids |-> Some(<<1>>), images |-> Some(<<ImgA>>),
      characteristics |-> Some(<<CharRed>>),
      variations |-> Some(<<VarCase>>)] : q \in {2, 3}}

RefUpdatePayloads ==
    {[NoPayload EXCEPT !.quantity = Some(1), !.images = Some(<<ImgB>>)]}

Quantities == {1, 2}

\* the product ids a request may name: the products there are, and one
\* that does not exist
ProductIds == {p.id : p \in db.products} \cup {0}

\* likewise for basket items
ItemIds == {i.id : i \in db.basket_items} \cup {0}

NextRefs ==
    \/ /\ seq < MaxRefRequests
       /\ \E payload \in RefCreatePayloads : CreateBegin(payload, 1)
    \/ /\ seq < MaxRefRequests
       /\ \E product_id \in ProductIds, payload \in RefUpdatePayloads,
             vendor_profile_id \in Vendors :
              UpdateBegin(product_id, payload, vendor_profile_id)
    \/ /\ seq < MaxRefRequests
       /\ \E product_id \in ProductIds, vendor_profile_id \in Vendors :
              DeleteBegin(product_id, vendor_profile_id)
    \/ /\ seq < MaxRefRequests
       /\ \E product_id \in ProductIds : AdminDeleteBegin(product_id)
    \/ /\ seq < MaxRefRequests
       /\ \E product_id \in ProductIds, quantity \in Quantities :
              AddItem(1, product_id, quantity)
    \/ /\ seq < MaxRefRequests
       /\ \E item_id \in ItemIds, quantity \in Quantities :
              UpdateItem(1, item_id, quantity)
    \/ /\ seq < MaxRefRequests
       /\ \E item_id \in ItemIds : RemoveItem(1, item_id)
    \/ /\ seq < MaxRefRequests
       /\ \E product_id \in ProductIds : CreateFavorite(1, product_id)
    \/ /\ seq < MaxRefRequests
       /\ \E product_id \in ProductIds : RemoveFavorite(1, product_id)
    \/ RequestStep

SpecRefs == Init /\ [][NextRefs]_vars

----------------------------------------------------------------------------
(* The specification of the basket: two users, products whose stock, price *)
(* and status change under the lines that name them.                       *)

\* requests served in a run of the basket specification
MaxBasketRequests == 4

BasketCreatePayloads ==
    {[NoPayload EXCEPT !.name = Some(Drill), !.category_id = Some(1),
                       !.price = Some(5), !.quantity = Some(2),
                       !.status = Some("approved")]}

BasketUpdatePayloads ==
    {[NoPayload EXCEPT !.quantity = Some(1)],
     [NoPayload EXCEPT !.price = Some(7)]}

NextBasket ==
    \/ /\ seq < MaxBasketRequests
       /\ \E payload \in BasketCreatePayloads : CreateBegin(payload, 1)
    \/ /\ seq < MaxBasketRequests
       /\ \E product_id \in ProductIds \ {0}, payload \in BasketUpdatePayloads :
              UpdateBegin(product_id, payload, 1)
    \/ /\ seq < MaxBasketRequests
       /\ \E product_id \in ProductIds :
              UpdateProductStatus(product_id, "rejected")
    \/ /\ seq < MaxBasketRequests
       /\ \E user_id \in Users, product_id \in ProductIds, quantity \in {1, 3} :
              AddItem(user_id, product_id, quantity)
    \/ /\ seq < MaxBasketRequests
       /\ \E user_id \in Users, item_id \in ItemIds :
              UpdateItem(user_id, item_id, 2)
    \/ /\ seq < MaxBasketRequests
       /\ \E user_id \in Users, item_id \in ItemIds : RemoveItem(user_id, item_id)
    \/ /\ seq < MaxBasketRequests
       /\ \E user_id \in Users : GetBasket(user_id)
    \/ /\ seq < MaxBasketRequests
       /\ \E user_id \in Users : GetBasketTotal(user_id)
    \/ CreateFilters
    \/ CreateImages
    \/ CreateCharacteristics
    \/ CreateVariations
    \/ CreateCommit
    \/ CreateExcept
    \/ UpdateFilters
    \/ UpdateImages
    \/ UpdateCharacteristics
    \/ UpdateVariations
    \/ UpdateCommit
    \/ DbError
    \/ SessionClose

SpecBasket == Init /\ [][NextBasket]_vars

----------------------------------------------------------------------------
(* The specification of concurrent add_item requests. *)

\* requests served in a run of the specification of concurrent requests
MaxRaceRequests == 3

RaceCreatePayloads ==
    {[NoPayload EXCEPT !.name = Some(Drill), !.category_id = Some(1),
                       !.price = Some(5), !.quantity = Some(1),
                       !.status = Some("approved")]}

NextRace ==
    \/ /\ seq < MaxRaceRequests
       /\ \E payload \in RaceCreatePayloads : CreateBegin(payload, 1)
    \/ /\ seq < MaxRaceRequests
       /\ \E c \in Connections, user_id \in Users, product_id \in ProductIds :
              CallAddItem(c, user_id, product_id, 1)
    \/ \E c \in Connections : CallQueryBasket(c)
    \/ \E c \in Connections : CallCreateBasket(c)
    \/ \E c \in Connections : CallQueryExisting(c)
    \/ \E c \in Connections : CallWrite(c)
    \/ CreateFilters
    \/ CreateImages
    \/ CreateCharacteristics
    \/ CreateVariations
    \/ CreateCommit
    \/ CreateExcept
    \/ DbError

SpecRace == Init /\ [][NextRace]_vars

----------------------------------------------------------------------------
(* The specification of product prices and stock. *)

\* requests served in a run of the specification of prices
MaxPriceRequests == 2

\* ProductCreateComplete: price: float, quantity: Optional[int] = 0
PriceCreatePayloads ==
    {[NoPayload EXCEPT !.name = Some(Drill), !.category_id = Some(1),
                       !.price = Some(price), !.quantity = Some(quantity),
                       !.status = Some("approved")] :
        price \in {-1, 0, 5}, quantity \in {-1, 0, 2}}

PriceUpdatePayloads ==
    {[NoPayload EXCEPT !.price = Some(price)] : price \in {-1, 0, 7}}
        \cup {[NoPayload EXCEPT !.quantity = Some(quantity)] :
                 quantity \in {-1, 3}}

NextPrices ==
    \/ /\ seq < MaxPriceRequests
       /\ \E payload \in PriceCreatePayloads : CreateBegin(payload, 1)
    \/ /\ seq < MaxPriceRequests
       /\ \E product_id \in ProductIds, payload \in PriceUpdatePayloads :
              UpdateBegin(product_id, payload, 1)
    \/ CreateFilters
    \/ CreateImages
    \/ CreateCharacteristics
    \/ CreateVariations
    \/ CreateCommit
    \/ CreateExcept
    \/ UpdateFilters
    \/ UpdateImages
    \/ UpdateCharacteristics
    \/ UpdateVariations
    \/ UpdateCommit
    \/ DbError
    \/ SessionClose

SpecPrices == Init /\ [][NextPrices]_vars

----------------------------------------------------------------------------
(* The specification of vendor profiles. *)

\* requests served in a run of the specification of vendor profiles
MaxVendorRequests == 3

\* VendorStatusUpdate.reject_reason: Optional[str] = None
RejectReasons == {None, Some(""), Some("documents unreadable")}

\* the vendors a request may name: the profiles there are, and one that
\* does not exist
VendorIds == {v.id : v \in db.vendor_profiles} \cup {0}

NextVendors ==
    \/ /\ seq < MaxVendorRequests
       /\ \E vendor_id \in VendorIds, new_status \in VendorStatuses,
             reject_reason \in RejectReasons :
              UpdateVendorStatus(vendor_id, new_status, reject_reason)
    \/ /\ seq < MaxVendorRequests
       /\ \E vendor_id \in VendorIds : ApproveVendor(vendor_id)
    \/ /\ seq < MaxVendorRequests
       /\ \E vendor_id \in VendorIds, reject_reason \in RejectReasons :
              RejectVendor(vendor_id, reject_reason)
    \/ /\ seq < MaxVendorRequests
       /\ \E vendor_id \in VendorIds : ReapplyVendor(vendor_id)

SpecVendors == Init /\ [][NextVendors]_vars

----------------------------------------------------------------------------
(* The specification of the public reads: a vendor's products, approved or *)
(* waiting for approval, the admin's decisions on products and vendors,    *)
(* and the reads open to everyone.                                         *)

\* requests served in a run of the specification of public reads
MaxPublicRequests == 3

\* the vendor's products: one offered as approved (the default of the
\* schema), one as pending; a vendor's payload never says rejected
PublicCreatePayloads ==
    {[NoPayload EXCEPT !.name = Some(Drill), !.category_id = Some(1),
                       !.price = Some(5), !.quantity = Some(2),
                       !.status = Some("approved"),
                       !.filter_option_ids = Some(<<1>>)],
     [NoPayload EXCEPT !.name = Some(Saw), !.category_id = Some(1),
                       !.price = Some(9), !.quantity = Some(1),
                       !.status = Some("pending")]}

\* ProductUpdateComplete.status: Optional[ProductStatus]
PublicUpdatePayloads ==
    {[NoPayload EXCEPT !.status = Some("approved")],
     [NoPayload EXCEPT !.price = Some(7)]}

Limits == {None, Some(1)}
Offsets == {None, Some(1)}
CategoryIds == {None, Some(1), Some(2)}
Searches == {None, Some(<<"d">>), Some(<<"w">>)}

NextPublic ==
    \/ /\ seq < MaxPublicRequests
       /\ \E payload \in PublicCreatePayloads : CreateBegin(payload, 1)
    \/ /\ seq < MaxPublicRequests
       /\ \E product_id \in ProductIds, payload \in PublicUpdatePayloads :
              UpdateBegin(product_id, payload, 1)
    \/ /\ seq < MaxPublicRequests
       /\ \E product_id \in ProductIds, new_status \in {"approved", "rejected"} :
              UpdateProductStatus(product_id, new_status)
    \/ /\ seq < MaxPublicRequests
       /\ \E vendor_id \in VendorIds : ApproveVendor(vendor_id)
    \/ /\ seq < MaxPublicRequests
       /\ \E limit \in Limits, offset \in Offsets, category_id \in CategoryIds,
             vendor_id \in {None, Some(1)}, search \in Searches :
              GetAllProducts(limit, offset, category_id, vendor_id, search)
    \/ /\ seq < MaxPublicRequests
       /\ \E category_id \in {1, 2} : GetProductsByCategory(category_id)
    \/ /\ seq < MaxPublicRequests
       /\ \E q \in {<<"d">>, <<"w">>}, limit \in Limits, offset \in Offsets,
             category_id \in CategoryIds :
              SearchProducts(q, limit, offset, category_id)
    \/ /\ seq < MaxPublicRequests
       /\ \E filter_option_ids \in {<<1>>, <<1, 2>>}, match_all \in BOOLEAN :
              SearchProductsByFilterOptionsOnly(filter_option_ids, match_all)
    \/ /\ seq < MaxPublicRequests
       /\ \E product_id \in ProductIds : GetProductPublic(product_id)
    \/ /\ seq < MaxPublicRequests
       /\ \E vendor_id \in VendorIds, limit \in {1, 10}, offset \in {0, 1} :
              GetPublicVendorProducts(vendor_id, limit, offset)
    \/ CreateFilters
    \/ CreateImages
    \/ CreateCharacteristics
    \/ CreateVariations
    \/ CreateCommit
    \/ CreateExcept
    \/ UpdateFilters
    \/ UpdateImages
    \/ UpdateCharacteristics
    \/ UpdateVariations
    \/ UpdateCommit
    \/ DbError
    \/ SessionClose

SpecPublic == Init /\ [][NextPublic]_vars

----------------------------------------------------------------------------
(* The specification of the order flow: a customer, another customer and   *)
(* an admin create orders for the product on sale and change their status. *)

\* requests served in a run of the specification of orders
MaxOrderRequests == 4

\* current_user: two customers and an admin
OrderUsers ==
    {[id |-> 1, role |-> "User"], [id |-> 2, role |-> "User"],
     [id |-> 3, role |-> "Admin"]}

\* OrderCreate.order_items; product 0 does not exist
OrderItemLists ==
    {<<[product_id |-> 1, quantity |-> 1]>>,
     <<[product_id |-> 1, quantity |-> 2]>>,
     <<[product_id |-> 1, quantity |-> 3]>>,
     <<[product_id |-> 0, quantity |-> 1]>>}

\* the orders a request may name: the orders there are, and one that does
\* not exist
OrderIds == {o.id : o \in db.orders} \cup {0}

NextOrders ==
    \/ /\ seq < MaxOrderRequests
       /\ \E current_user \in OrderUsers, order_items \in OrderItemLists :
              CreateOrder(current_user, order_items)
    \/ /\ seq < MaxOrderRequests
       /\ \E order_id \in OrderIds, new_status \in OrderStatuses,
             current_user \in OrderUsers :
              UpdateOrderStatus(order_id, new_status, current_user)

SpecOrders == Init /\ [][NextOrders]_vars

----------------------------------------------------------------------------
(* The specification of the filter-option check: creates and updates whose *)
(* lists name options that exist, options that do not, and the same option *)
(* twice.                                                                  *)

\* requests served in a run of the specification of the filter-option check
MaxFilterRequests == 2

\* filter option 3 does not exist
FilterCreateLists == {<<>>, <<1>>, <<1, 1>>, <<1, 2>>, <<1, 3>>}
FilterUpdateLists ==
    {<<>>, <<1>>, <<1, 1>>, <<2, 2>>, <<2, 1>>, <<2, 3>>, <<3, 3>>}

FilterCreatePayloads ==
    {[NoPayload EXCEPT !.name = Some(Drill), !.category_id = Some(1),
                       !.price = Some(5), !.quantity = Some(2),
                       !.status = Some("approved"),
                       !.filter_option_ids = Some(ids)] :
        ids \in FilterCreateLists}

FilterUpdatePayloads ==
    {[NoPayload EXCEPT !.filter_option_ids = Some(ids)] :
        ids \in FilterUpdateLists}
        \cup {[NoPayload EXCEPT !.price = Some(7)]}

NextFilters ==
    \/ /\ seq < MaxFilterRequests
       /\ \E payload \in FilterCreatePayloads : CreateBegin(payload, 1)
    \/ /\ seq < MaxFilterRequests
       /\ \E product_id \in ProductIds, payload \in FilterUpdatePayloads :
              UpdateBegin(product_id, payload, 1)
    \/ CreateFilters
    \/ CreateImages
    \/ CreateCharacteristics
    \/ CreateVariations
    \/ CreateCommit
    \/ CreateExcept
    \/ UpdateFilters
    \/ UpdateImages
    \/ UpdateCharacteristics
    \/ UpdateVariations
    \/ UpdateCommit
    \/ DbError
    \/ SessionClose

SpecFilters == Init /\ [][NextFilters]_vars

----------------------------------------------------------------------------
(* The specification of the classification tree: runs of the script over   *)
(* a few filter.json files, and reads of the tree.                         *)

\* requests served in a run of the specification of the classification tree
MaxMetadataRequests == 3

\* filter.json: an object of categories, each an object of filter types,
\* each a list of option values
FilterFiles ==
    {<<[name |-> "Tools",
        filters |-> <<[name |-> "Power", options |-> <<"battery", "petrol">>],
                      [name |-> "Brand", options |-> <<"Bosch">>]>>],
       [name |-> "Paint",
        filters |-> <<[name |-> "Brand", options |-> <<"Bosch", "Dulux">>]>>]>>,
     <<[name |-> "Paint", filters |-> <<>>]>>,
     <<[name |-> "Paint",
        filters |-> <<[name |-> "Power", options |-> <<"220V">>]>>],
       [name |-> "Garden",
        filters |-> <<[name |-> "Brand", options |-> <<>>]>>]>>}

NextMetadata ==
    \/ /\ seq < MaxMetadataRequests
       /\ \E filters_data \in FilterFiles : PopulateCategories(filters_data)
    \/ PopulateFilters
    \/ /\ seq < MaxMetadataRequests
       /\ ClearDatabase
    \/ /\ seq < MaxMetadataRequests
       /\ GetAllMetadata

SpecMetadata == Init /\ [][NextMetadata]_vars

----------------------------------------------------------------------------
(* The specification of user management. *)

\* requests served in a run of the specification of user management
MaxUserRequests == 3

\* the ids asked for: the users there are, and one there is not
UserIds == {1, 2, 3, 4, 5}

NextUsers ==
    \/ /\ seq < MaxUserRequests
       /\ \E user_id \in UserIds, new_user_type \in UserTypes :
             UpdateUserType(user_id, new_user_type)
    \/ /\ seq < MaxUserRequests
       /\ \E user_id \in UserIds : DeleteUser(user_id)

SpecUsers == Init /\ [][NextUsers]_vars

----------------------------------------------------------------------------
(* What a reader sees of a product aggregate. *)

RECURSIVE SortById(_)
SortById(rows) ==
    IF rows = {} THEN <<>>
    ELSE LET r == CHOOSE x \in rows : \A y \in rows : x.id <= y.id
         IN <<r>> \o SortById(rows \ {r})

\* d is db or the catalog a request found when it began
OfProduct(d, t, product_id) == {r \in d[t] : r.product_id = product_id}
OfVariation(d, t, variation_id) == {r \in d[t] : r.variation_id = variation_id}
FiltersOf(d, product_id) ==
    {pf.filter_option_id : pf \in OfProduct(d, "product_filters", product_id)}
VariationIds(d, product_id) ==
    {v.id : v \in OfProduct(d, "product_variations", product_id)}
VariationChildren(d, t, product_id) ==
    {r \in d[t] : r.variation_id \in VariationIds(d, product_id)}
TypeName(d, type_id) ==
    (CHOOSE ct \in d.characteristic_types : ct.id = type_id).name
Ids(rows) == {r.id : r \in rows}

\* the image rows, in id order, are the rows built from the list
ImagesMatch(rows, images) ==
    LET sorted == SortById(rows)
    IN /\ Len(sorted) = Len(images)
       /\ \A i \in 1..Len(images) :
            /\ sorted[i].url = images[i].url
            /\ sorted[i].order =
                   IF images[i].order # 0 THEN images[i].order ELSE i - 1

CharacteristicsMatch(d, rows, characteristics) ==
    LET sorted == SortById(rows)
    IN /\ Len(sorted) = Len(characteristics)
       /\ \A i \in 1..Len(characteristics) :
            /\ sorted[i].value = characteristics[i].value
            /\ \E ct \in d.characteristic_types :
                   ct.id = sorted[i].characteristic_type_id
            /\ TypeName(d, sorted[i].characteristic_type_id) =
                   characteristics[i].type_name

VariationsMatch(d, product_id, variations) ==
    LET sorted == SortById(OfProduct(d, "product_variations", product_id))
    IN /\ Len(sorted) = Len(variations)
       /\ \A i \in 1..Len(variations) :
            /\ sorted[i].name = variations[i].name
            /\ sorted[i].price = variations[i].price
            /\ sorted[i].quantity = variations[i].quantity
            /\ ImagesMatch(OfVariation(d, "variation_images", sorted[i].id),
                           variations[i].images)
            /\ CharacteristicsMatch(
                   d, OfVariation(d, "variation_characteristics", sorted[i].id),
                   variations[i].characteristics)

\* the product of a create payload with every one of its child rows
AggregateMatches(d, product_id, vendor_profile_id, payload) ==
    /\ {p \in d.products : p.id = product_id} =
           {[id |-> product_id, vendor_profile_id |-> vendor_profile_id,
             name |-> Val(payload.name),
             category_id |-> Val(payload.category_id),
             price |-> Val(payload.price), quantity |-> Val(payload.quantity),
             status |-> Val(payload.status)]}
    /\ FiltersOf(d, product_id) = Range(Val(payload.filter_option_ids))
    /\ ImagesMatch(OfProduct(d, "product_images", product_id),
                   Val(payload.images))
    /\ CharacteristicsMatch(
           d, OfProduct(d, "product_characteristics", product_id),
           Val(payload.characteristics))
    /\ VariationsMatch(d, product_id, Val(payload.variations))

Succeeded(op, code) == req.op = op /\ req.pc = "done" /\ req.code = code

----------------------------------------------------------------------------
(* Claims on the catalog specification. *)

\* C1: create_complete is all-or-nothing.  While a create request is in
\* flight, and after it has failed, a reader finds the catalog exactly as
\* the request found it; after it has succeeded the reader finds the product
\* row with its filter associations and every image, characteristic and
\* variation row of the payload, the variations with their own images and
\* characteristics.
C1_CreateAllOrNothing ==
    req.op = "create" =>
        IF req.pc = "done" /\ req.code = 201
        THEN AggregateMatches(db, req.product_id, req.vendor_profile_id,
                              req.payload)
        ELSE Catalog(db) = req.before

\* a create with two variations, images and characteristics has committed
C1_Witness ==
    /\ Succeeded("create", 201)
    /\ Len(Val(req.payload.variations)) = 2
    /\ Cardinality(db.variation_images) + Cardinality(db.product_images) >= 3

\* C2: an update that fails at any step persists none of its changes: the
\* catalog a reader finds, during the request and after its failure, is the
\* one the request found, and once the request has ended no change of it is
\* left pending.
C2_UpdateAllOrNothing ==
    (req.op = "update" /\ ~(req.pc = "done" /\ req.code = 200)) =>
        /\ Catalog(db) = req.before
        /\ req.pc = "done" => tx = NoTx

\* an update has failed on its variations after it had deleted the images
\* the product had
C2_Witness ==
    /\ req.op = "update" /\ req.pc = "done" /\ req.code = 500
    /\ req.detail = "IntegrityError"
    /\ IsSet(req.payload.images)
    /\ OfProduct(req.before, "product_images", req.product_id) # {}

HasUnknownFilterOption(payload) ==
    /\ IsSet(payload.filter_option_ids)
    /\ \E id \in Range(Val(payload.filter_option_ids)) :
           \A fo \in db.filter_options : fo.id # id

\* C3: a create whose filter_option_ids names an option that does not exist
\* fails with 400 and leaves no row: no product, association, image,
\* characteristic, variation or characteristic type.
C3_UnknownFilterOptionPersistsNothing ==
    (req.op = "create" /\ HasUnknownFilterOption(req.payload)) =>
        /\ Catalog(db) = req.before
        /\ \A p \in db.products : p.id # req.product_id
        /\ req.pc = "done" => req.code = 400

\* such a create, with children in its payload, has been refused
C3_Witness ==
    /\ Succeeded("create", 400)
    /\ req.detail = "Some filter options not found"
    /\ HasUnknownFilterOption(req.payload)
    /\ Val(req.payload.variations) # <<>>

VariationRows(d, product_id) ==
    [variations |-> OfProduct(d, "product_variations", product_id),
     images |-> VariationChildren(d, "variation_images", product_id),
     characteristics |->
         VariationChildren(d, "variation_characteristics", product_id)]

\* C4: a successful update without the variations field leaves the
\* variations of the product, their images and their characteristics as
\* they were; a successful update with an empty variations list leaves the
\* product without variations.
C4_VariationsOmittedOrEmpty ==
    Succeeded("update", 200) =>
        /\ ~IsSet(req.payload.variations) =>
               VariationRows(db, req.product_id) =
                   VariationRows(req.before, req.product_id)
        /\ req.payload.variations = Some(<<>>) =>
               OfProduct(db, "product_variations", req.product_id) = {}

\* an update with an empty variations list has removed the variations the
\* product had
C4_Witness ==
    /\ Succeeded("update", 200)
    /\ req.payload.variations = Some(<<>>)
    /\ OfProduct(req.before, "product_variations", req.product_id) # {}

ProductRow(d, product_id) == CHOOSE p \in d.products : p.id = product_id

\* C5: after a successful update, an empty filter_option_ids has removed
\* every association of the product and an absent one has left them as they
\* were; a scalar field the payload sets has the payload's value, and every
\* field the payload does not set (scalar or child collection) is unchanged.
C5_OnlyPresentFieldsChange ==
    Succeeded("update", 200) =>
        LET payload == req.payload
            id == req.product_id
            old == ProductRow(req.before, id)
            new == ProductRow(db, id)
            same(t) == OfProduct(db, t, id) = OfProduct(req.before, t, id)
        IN /\ payload.filter_option_ids = Some(<<>>) => FiltersOf(db, id) = {}
           /\ ~IsSet(payload.filter_option_ids) =>
                  FiltersOf(db, id) = FiltersOf(req.before, id)
           /\ new.price =
                  IF IsSet(payload.price) THEN Val(payload.price) ELSE old.price
           /\ new.quantity =
                  IF IsSet(payload.quantity) THEN Val(payload.quantity)
                  ELSE old.quantity
           /\ new.status =
                  IF IsSet(payload.status) THEN Val(payload.status)
                  ELSE old.status
           /\ new.name =
                  IF IsSet(payload.name) THEN Val(payload.name) ELSE old.name
           /\ new.category_id =
                  IF IsSet(payload.category_id) THEN Val(payload.category_id)
                  ELSE old.category_id
           /\ new.vendor_profile_id = old.vendor_profile_id
           /\ ~IsSet(payload.images) => same("product_images")
           /\ ~IsSet(payload.characteristics) => same("product_characteristics")
           /\ ~IsSet(payload.variations) =>
                  VariationRows(db, id) = VariationRows(req.before, id)

\* an update with an empty filter list and a new price has cleared the
\* associations the product had
C5_Witness ==
    /\ Succeeded("update", 200)
    /\ req.payload.filter_option_ids = Some(<<>>)
    /\ IsSet(req.payload.price)
    /\ FiltersOf(req.before, req.product_id) # {}

\* C6: after a successful update that carries images (characteristics,
\* variations), the product's rows of that kind are the rows built from the
\* payload list, in its order, and none of them is a row that was there
\* before.
C6_ChildrenReplaced ==
    Succeeded("update", 200) =>
        LET payload == req.payload
            id == req.product_id
            fresh(t) == Ids(OfProduct(db, t, id)) \cap
                            Ids(OfProduct(req.before, t, id)) = {}
        IN /\ IsSet(payload.images) =>
                  /\ ImagesMatch(OfProduct(db, "product_images", id),
                                 Val(payload.images))
                  /\ fresh("product_images")
           /\ IsSet(payload.characteristics) =>
                  /\ CharacteristicsMatch(
                         db, OfProduct(db, "product_characteristics", id),
                         Val(payload.characteristics))
                  /\ fresh("product_characteristics")
           /\ IsSet(payload.variations) =>
                  /\ VariationsMatch(db, id, Val(payload.variations))
                  /\ fresh("product_variations")

\* an update has replaced the images the product had by two new ones
C6_Witness ==
    /\ Succeeded("update", 200)
    /\ req.payload.images = Some(<<ImgB, ImgA>>)
    /\ OfProduct(req.before, "product_images", req.product_id) # {}

\* C8: after a successful delete no row of the product remains: no
\* variation, product image, product characteristic or filter association,
\* and no image or characteristic of one of its variations.
C8_DeleteCascades ==
    (req.op \in {"delete", "delete_for_admin"} /\ req.pc = "done"
        /\ req.code = 200) =>
        LET id == req.product_id
            variation_ids == VariationIds(req.before, id)
        IN /\ \A p \in db.products : p.id # id
           /\ \A t \in {"product_variations", "product_images",
                        "product_characteristics", "product_filters"} :
                  OfProduct(db, t, id) = {}
           /\ \A t \in {"variation_images", "variation_characteristics"} :
                  \A r \in db[t] : r.variation_id \notin variation_ids

\* a product whose variations had images and characteristics was deleted
C8_Witness ==
    /\ Succeeded("delete", 200)
    /\ VariationChildren(req.before, "variation_images", req.product_id) # {}
    /\ VariationChildren(req.before, "variation_characteristics",
                         req.product_id) # {}

----------------------------------------------------------------------------
(* Claims on the specification with baskets and favorites. *)

References(d, product_id) ==
    [basket_items |-> {i \in d.basket_items : i.product_id = product_id},
     favorites |-> {f \in d.favorites : f.product_id = product_id}]

\* C7: in every reachable state each basket item and each favorite names a
\* product that exists, and once a delete (by the owning vendor or by an
\* admin) has succeeded neither the product nor a basket item or favorite
\* of it is there.
C7_NoOrphanReferences ==
    /\ \A t \in {"basket_items", "favorites"} :
           \A r \in db[t] : \E p \in db.products : p.id = r.product_id
    /\ (req.op \in {"delete", "delete_for_admin"} /\ req.pc = "done"
           /\ req.code = 200) =>
           /\ \A p \in db.products : p.id # req.product_id
           /\ References(db, req.product_id) =
                  [basket_items |-> {}, favorites |-> {}]

\* a product was deleted after a user had put it in a basket
C7_Witness ==
    /\ req.op \in {"delete", "delete_for_admin"} /\ req.pc = "done"
    /\ req.code = 200
    /\ breq.op = "add_item" /\ breq.code = 200
    /\ breq.product_id = req.product_id
    /\ breq.rid < req.rid

NotOwner(r) ==
    /\ r.op \in {"update", "delete"}
    /\ \E p \in r.before.products :
           /\ p.id = r.product_id
           /\ p.vendor_profile_id # r.vendor_profile_id

\* C9: every step of an update or a delete asked by a vendor who does not
\* own the product leaves the database as it is, with no change pending,
\* and the request ends in 403.
C9_NotOwnerChangesNothing ==
    [][(req' # req /\ NotOwner(req')) =>
           /\ db' = db
           /\ tx' = NoTx
           /\ req'.code = 403
           /\ req'.pc \in {"raise", "done"}]_vars

\* another vendor's delete of a product that is in a basket was refused
C9_Witness ==
    /\ req.op = "delete" /\ req.pc = "done" /\ req.code = 403
    /\ NotOwner(req)
    /\ References(db, req.product_id).basket_items # {}

LinesOf(d, user_id, product_id) ==
    {i \in d.basket_items :
        /\ i.product_id = product_id
        /\ \E b \in d.baskets : b.id = i.basket_id /\ b.user_id = user_id}

\* C10: when add_item is called for an approved product of which the
\* user's basket holds one line with quantity Q1, asking for Q2: if Q1+Q2 is
\* at most the stock the call succeeds and the basket holds that one line
\* with quantity Q1+Q2; otherwise the call fails with 400 and the line is
\* left with Q1.
C10_AddAccumulates ==
    [][(breq'.rid = seq + 1 /\ breq'.op = "add_item") =>
          \A line \in LinesOf(db, breq'.user_id, breq'.product_id) :
          \A product \in {p \in db.products : p.id = breq'.product_id
                                               /\ p.status = "approved"} :
              LinesOf(db, breq'.user_id, breq'.product_id) = {line} =>
                  IF line.quantity + breq'.quantity <= product.quantity
                  THEN /\ breq'.code = 200
                       /\ LinesOf(db', breq'.user_id, breq'.product_id) =
                              {[line EXCEPT !.quantity =
                                                @ + breq'.quantity]}
                  ELSE /\ breq'.code = 400
                       /\ db'.basket_items = db.basket_items]_vars

\* a second add_item has raised the quantity of the line the first one made
C10_Witness ==
    /\ breq.op = "add_item" /\ breq.code = 200
    /\ \E line \in LinesOf(db, breq.user_id, breq.product_id) :
           /\ line.quantity > breq.quantity
           /\ line.id < breq.rid * IdStride

----------------------------------------------------------------------------
(* Claims on the basket specification. *)

\* the request served by this step is the basket request op
Serves(op) == breq'.rid = seq + 1 /\ breq'.op = op

\* C11: add_item succeeds only for a product that exists, is approved and
\* has at least the requested quantity in stock; for a product that does
\* not exist it answers 404 not found, for one that is not approved 400 not
\* available, for one with too little stock 400 not enough quantity with
\* the quantity available, and in these cases no basket line is made or
\* changed.
C11_AddItemValidates ==
    [][Serves("add_item") =>
          LET found == {p \in db.products : p.id = breq'.product_id}
              refused(code, detail) ==
                  /\ breq'.code = code
                  /\ breq'.detail = detail
                  /\ db'.basket_items = db.basket_items
          IN /\ breq'.code \in {200, 400, 404}
             /\ found = {} => refused(404, "Product not found")
             /\ \A product \in found :
                    IF product.status # "approved"
                    THEN refused(400, "Product is not available")
                    ELSE IF product.quantity < breq'.quantity
                    THEN /\ refused(400, "Not enough quantity")
                         /\ breq'.available = product.quantity
                    ELSE breq'.code = 400 =>
                             /\ refused(400, "Not enough quantity")
                             /\ breq'.available = product.quantity]_vars

\* add_item was refused for a rejected product that had enough stock
C11_Witness ==
    /\ breq.op = "add_item" /\ breq.code = 400
    /\ breq.detail = "Product is not available"
    /\ \E p \in db.products :
           /\ p.id = breq.product_id
           /\ p.status = "rejected"
           /\ p.quantity >= breq.quantity

\* what the baskets of a user hold of a product
Held(d, user_id, product_id) ==
    {i \in d.basket_items :
        /\ i.product_id = product_id
        /\ \E b \in d.baskets : b.id = i.basket_id /\ b.user_id = user_id}

\* the user whose basket holds the item
OwnerOf(d, item) ==
    {b.user_id : b \in {x \in d.baskets : x.id = item.basket_id}}

\* C14: update_item and remove_item called with the id of an item of
\* another user's basket answer 404 item not found and leave every basket
\* item as it is.
C14_OtherUsersItemUntouched ==
    [][(Serves("update_item") \/ Serves("remove_item")) =>
          \A item \in {i \in db.basket_items : i.id = breq'.item_id} :
              breq'.user_id \notin OwnerOf(db, item) =>
                  /\ breq'.code = 404
                  /\ breq'.detail = "Basket item not found"
                  /\ db'.basket_items = db.basket_items]_vars

\* a user's update_item on an item of the other user's basket was refused
C14_Witness ==
    /\ breq.op = "update_item" /\ breq.code = 404
    /\ \E item \in db.basket_items :
           /\ item.id = breq.item_id
           /\ OwnerOf(db, item) # {}
           /\ breq.user_id \notin OwnerOf(db, item)

\* C15 (as claimed): update_item on an item of the user's basket succeeds
\* only if the product is approved and has at least the new quantity in
\* stock, and otherwise fails and leaves the quantity of the item.
C15_UpdateItemValidates ==
    [][Serves("update_item") =>
          \A item \in {i \in db.basket_items : i.id = breq'.item_id} :
              breq'.user_id \in OwnerOf(db, item) =>
                  LET product == product_of(db, item)
                  IN IF product.status = "approved"
                         /\ product.quantity >= breq'.quantity
                     THEN breq'.code = 200
                     ELSE /\ breq'.code = 400
                          /\ db'.basket_items = db.basket_items]_vars

\* C16 (as claimed): a read of the basket returns no line whose product is
\* not approved or whose quantity is more than the product has in stock.
C16_ReadReconciled ==
    [][Serves("get_basket") =>
          \A line \in breq'.body :
              /\ line.product.status = "approved"
              /\ line.quantity <= line.product.quantity]_vars

\* the quantity a user holds of a product, over the lines of the basket
HeldQuantity(d, user_id, product) ==
    sum_quantity(Held(d, user_id, product.id))

RECURSIVE TotalAtCurrentPrices(_, _, _)
TotalAtCurrentPrices(d, user_id, products) ==
    IF products = {} THEN 0
    ELSE LET product == CHOOSE p \in products : TRUE
         IN product.price * HeldQuantity(d, user_id, product)
                + TotalAtCurrentPrices(d, user_id, products \ {product})

\* C17: the total price a read of the totals reports is the sum, over the
\* products as they are in the database at the read, of the price times the
\* quantity the user's basket holds; the basket row stores no total.
C17_TotalAtCurrentPrice ==
    [][Serves("get_basket_total") =>
          /\ breq'.body.total_price =
                 TotalAtCurrentPrices(db', breq'.user_id, db'.products)
          /\ \A b \in db'.baskets : DOMAIN b = {"id", "user_id"}]_vars

\* the totals were read after the price of a product in the basket had been
\* changed from 5 to 7, and the total is 7 for each unit
C17_Witness ==
    /\ breq.op = "get_basket_total" /\ breq.body.total_quantity > 0
    /\ breq.body.total_price = 7 * breq.body.total_quantity
    /\ req.op = "update" /\ req.pc = "done" /\ req.code = 200
    /\ req.payload.price = Some(7)
    /\ req.rid < breq.rid
    /\ \E line \in Held(db, breq.user_id, req.product_id) :
           line.id < req.rid * IdStride

----------------------------------------------------------------------------
(* Claims on the specification of concurrent requests. *)

\* C12: nothing guards the write of add_item against what was committed
\* after its reads: every write of a request that read no line for the
\* product adds a line and answers 200, whatever the basket holds by then,
\* so two requests for the last unit in stock can both succeed.
C12_WriteUnguarded ==
    [][\A c \in Connections :
          (calls[c].pc = "write" /\ calls'[c].pc = "done"
              /\ calls[c].existing_item = {}) =>
              /\ calls'[c].code = 200
              /\ \E line \in db'.basket_items \ db.basket_items :
                     /\ line.quantity = calls[c].quantity
                     /\ line.product_id = calls[c].product_id
                     /\ db'.basket_items = db.basket_items \cup {line}]_vars

\* two concurrent requests of one user for one unit each of a product with
\* one unit in stock have both succeeded, and the user holds two units
C12_Witness ==
    /\ \A c \in Connections :
           /\ calls[c].op = "add_item" /\ calls[c].pc = "done"
           /\ calls[c].code = 200 /\ calls[c].quantity = 1
           /\ calls[c].user_id = calls[1].user_id
           /\ calls[c].product_id = calls[1].product_id
    /\ \E p \in db.products : p.id = calls[1].product_id /\ p.quantity = 1
    /\ sum_quantity(Held(db, calls[1].user_id, calls[1].product_id)) = 2

\* C13 (as claimed): in every reachable state each user has at most one
\* basket row.
C13_OneBasketPerUser ==
    \A b1, b2 \in db.baskets : b1.user_id = b2.user_id => b1 = b2

----------------------------------------------------------------------------
(* Claims on prices, vendor profiles and favorites. *)

\* C18 (as claimed): in every reachable state every product has a price
\* above zero and a quantity of zero or more.
C18_PriceAndQuantityValid ==
    \A p \in db.products : p.price > 0 /\ p.quantity >= 0

\* C19 (as claimed): in every reachable state a vendor profile whose status
\* is not REJECTED has no reject reason.
C19_ReasonOnlyWhenRejected ==
    \A v \in db.vendor_profiles : v.status # "REJECTED" => ~IsSet(v.reject_reason)

\* C20: a create_favorite for a product that exists answers 201 and leaves
\* exactly one favorite of the user for the product, the row it returns,
\* adding none when there was one; for a product that does not exist it
\* answers 404 and adds no row.
C20_FavoriteIdempotent ==
    [][Serves("create_favorite") =>
          LET user_id == breq'.user_id
              product_id == breq'.product_id
              existing == get_favorite(db, user_id, product_id)
          IN IF \E p \in db.products : p.id = product_id
             THEN /\ breq'.code = 201
                  /\ Cardinality(get_favorite(db', user_id, product_id)) = 1
                  /\ \A f \in get_favorite(db', user_id, product_id) :
                         f.id = breq'.item_id
                  /\ existing # {} => db' = db
                  /\ db'.favorites \ get_favorite(db', user_id, product_id)
                         = db.favorites \ existing
             ELSE /\ breq'.code = 404
                  /\ db' = db]_vars

\* a second create_favorite for the pair has returned the row of the first
C20_Witness ==
    /\ breq.op = "create_favorite" /\ breq.code = 201
    /\ breq.detail = "existing"
    /\ \E f \in get_favorite(db, breq.user_id, breq.product_id) :
           f.id = breq.item_id /\ f.id < breq.rid * IdStride

----------------------------------------------------------------------------
(* Claims on the public reads and on the status of products. *)

PublicReads ==
    {"get_all_products", "get_products_by_category", "search_products",
     "search_products_by_filter_options_only", "get_product_public",
     "get_public_vendor_products"}

\* C21: no read open to everyone returns a product whose status is not
\* approved: every product in the body of a public listing, search or
\* detail response, the public listing of a vendor's products included, is
\* approved, whatever the vendor, category, search and pagination
\* parameters.
C21_PublicReadsApprovedOnly ==
    breq.op \in PublicReads /\ breq.code = 200 =>
        \A p \in breq.body : p.status = "approved"

\* C24: a product whose status is rejected (in this specification only the
\* admin's status operation sets it) becomes approved by the admin's status
\* operation alone: no other step, a vendor's update with any payload
\* included, takes a rejected product to approved.
C24_RejectedStaysNonApproved ==
    [][\A p \in db.products, q \in db'.products :
           p.id = q.id /\ p.status = "rejected" /\ q.status = "approved" =>
               Serves("update_product_status")]_vars

----------------------------------------------------------------------------
(* Claims on failures. *)

\* C22: a failure of the database is rolled back before it is surfaced:
\* whenever a writing operation has left its handler with a database error
\* (code 500), the transaction it had open has been rolled back.
C22_FailureRolledBack ==
    req.pc = "raise" /\ req.code = 500 => tx = NoTx

----------------------------------------------------------------------------
(* Claims on the vocabulary of characteristic types. *)

\* the characteristic rows of the product and of its variations
CharacteristicRows(d) ==
    d.product_characteristics \cup d.variation_characteristics

\* C23: characteristic types are a get-or-create vocabulary keyed by name.
\* At any moment no two CharacteristicType rows carry the same name, the
\* types a request found are still there (a name once committed keeps its
\* one row), every characteristic row references a type that exists, and
\* after a successful create or update that carries characteristics the
\* product's characteristic rows reference, in the payload's order, the
\* types named by the payload's type_name.
C23_TypeVocabulary ==
    /\ \A a, b \in db.characteristic_types : a.name = b.name => a = b
    /\ req.before.characteristic_types \subseteq db.characteristic_types
    /\ \A r \in CharacteristicRows(db) :
           \E ct \in db.characteristic_types : ct.id = r.characteristic_type_id
    /\ /\ Succeeded("create", 201) \/ Succeeded("update", 200)
       /\ IsSet(req.payload.characteristics)
       => CharacteristicsMatch(
              db, OfProduct(db, "product_characteristics", req.product_id),
              Val(req.payload.characteristics))

\* a request has succeeded whose new characteristic row references a type
\* that an earlier request had created
C23_Witness ==
    /\ req.pc = "done" /\ req.code \in {200, 201}
    /\ \E r \in CharacteristicRows(db) :
          /\ r.id > req.rid * IdStride
          /\ \E ct \in req.before.characteristic_types :
                 ct.id = r.characteristic_type_id

----------------------------------------------------------------------------
(* Claims on the children of variations. *)

----------------------------------------------------------------------------
(* Claims on the order flow. *)

----------------------------------------------------------------------------
(* Claims on failing basket requests. *)

\* C27: a basket request that fails leaves the database as it was: when
\* add_item, update_item or remove_item answers with an error (product not
\* found, not approved, not enough stock, item not found), the call has
\* created, changed or deleted no Basket row and no BasketItem row.
C27_FailureChangesNothing ==
    [][(Serves("add_item") \/ Serves("update_item") \/ Serves("remove_item"))
           /\ breq'.code >= 400
       => /\ db'.baskets = db.baskets
          /\ db'.basket_items = db.basket_items]_vars

----------------------------------------------------------------------------
(* Claims on the filter-option check. *)

\* every id of the list is the id of a filter option
AllExist(ids) == Range(ids) \subseteq {fo.id : fo \in db.filter_options}

\* the list names no id twice
Distinct(ids) == Len(ids) = Cardinality(Range(ids))

\* the request in flight runs its filter block (the step is not a failure
\* of the database)
FilterStep(op) ==
    /\ req.op = op /\ req.pc = "filters"
    /\ req'.pc # req.pc
    /\ req'.detail # "OperationalError"

\* C28 as stated: a create payload whose filter_option_ids all refer to
\* existing filter options passes the check, also when the list names the
\* same id more than once.
C28_ExistingIdsPass ==
    [][FilterStep("create") /\ AllExist(Val(req.payload.filter_option_ids))
           => req'.pc = "images"]_vars

\* C28, amended: the check accepts a list by count.  A create payload with
\* a non-empty list passes exactly when every id exists and no id is named
\* twice; an update payload that carries the field passes exactly when the
\* set of its ids is the set the product is associated with already, or the
\* list is empty, or every id exists and no id is named twice, and never
\* when an id does not exist.  A request that passed and succeeded leaves
\* the product associated with exactly the options of the list.
C28_FilterCheckByCount ==
    [][LET ids == Val(req.payload.filter_option_ids)
           current == FiltersOf(db, req.product_id)
       IN /\ FilterStep("create") /\ Truthy(req.payload.filter_option_ids) =>
                 (req'.pc = "images" <=> AllExist(ids) /\ Distinct(ids))
          /\ FilterStep("update") /\ IsSet(req.payload.filter_option_ids) =>
                 /\ req'.pc = "images" <=>
                        \/ Range(ids) = current
                        \/ ids = <<>>
                        \/ AllExist(ids) /\ Distinct(ids)
                 /\ ~AllExist(ids) => req'.pc = "raise"
          /\ /\ req.pc = "commit" /\ req'.pc = "done"
             /\ req'.code \in {200, 201}
             /\ IF req.op = "create" THEN Truthy(req.payload.filter_option_ids)
                ELSE IsSet(req.payload.filter_option_ids)
             => FiltersOf(db', req.product_id) = Range(ids)]_vars

\* a create whose list names option 1 twice has been refused as naming
\* options that were not found, although every id of the list exists
C28_Witness ==
    /\ req.op = "create" /\ req.pc = "done" /\ req.code = 400
    /\ req.detail = "Some filter options not found"
    /\ AllExist(Val(req.payload.filter_option_ids))
    /\ ~Distinct(Val(req.payload.filter_option_ids))

----------------------------------------------------------------------------
(* Claims on the classification tree. *)

\* the tree names every category of d, each with its id, its filter types
\* and their ids, and each filter type with its own options
TreeExact(body, d) ==
    /\ DOMAIN body = {c.name : c \in d.categories}
    /\ \A c \in d.categories :
          LET filter_types == {ft \in d.filter_types : ft.category_id = c.id}
              filters == body[c.name].filters
          IN /\ body[c.name].id = c.id
             /\ DOMAIN filters = {ft.name : ft \in filter_types}
             /\ \A ft \in filter_types :
                   /\ filters[ft.name].id = ft.id
                   /\ filters[ft.name].options =
                          {[id |-> o.id, value |-> o.value] :
                              o \in {x \in d.filter_options :
                                        x.filter_type_id = ft.id}}

\* C29: the metadata tree is complete and exact: what get_all_metadata
\* returns has one entry for every category in the database, with that
\* category's id and exactly that category's filter types, each with its id
\* and exactly its own options (id and value).
C29_MetadataTreeExact ==
    [][Serves("get_all_metadata") => TreeExact(breq'.body, db)]_vars

\* a tree of three categories has been read, in which a category has two
\* filter types and two categories have a filter type of the same name
C29_Witness ==
    /\ breq.op = "get_all_metadata"
    /\ Cardinality(DOMAIN breq.body) = 3
    /\ \E n \in DOMAIN breq.body : Cardinality(DOMAIN breq.body[n].filters) = 2
    /\ \E n, m \in DOMAIN breq.body :
          /\ n # m
          /\ DOMAIN breq.body[n].filters \cap DOMAIN breq.body[m].filters # {}

----------------------------------------------------------------------------
(* Claims on user management. *)

\* the users of d that are SUPERADMIN
Superadmins(d) == {u \in d.users : u.user_type = "SUPERADMIN"}

\* C30: over update_user_type and delete_user calls the number of
\* SUPERADMIN users never increases; a request to set a user's type to
\* SUPERADMIN fails and leaves the user unchanged; delete_user on a user who
\* is SUPERADMIN at the time of the call fails and leaves the user in place.
C30_SuperadminsNotMadeNorDeleted ==
    [][/\ Cardinality(Superadmins(db')) <= Cardinality(Superadmins(db))
       /\ Serves("update_user_type") /\ breq'.body.user_type = "SUPERADMIN"
             => breq'.code = 400 /\ db'.users = db.users
       /\ Serves("delete_user")
             /\ (\E u \in Superadmins(db) : u.id = breq'.user_id)
             => /\ breq'.code = 400
                /\ \E u \in Superadmins(db') : u.id = breq'.user_id]_vars

\* a user has been refused the type SUPERADMIN, and the delete of the
\* SUPERADMIN has been refused
C30_Witness ==
    /\ breq.op = "delete_user"
    /\ breq.user_id = 4
    /\ breq.code = 400
    /\ breq.detail = "Cannot delete SUPERADMIN users"
    /\ Superadmins(db) = {[id |-> 4, user_type |-> "SUPERADMIN"]}
    /\ \E u \in db.users : u.id = 1 /\ u.user_type = "ADMIN"

====
